---- MODULE Spec2Model ----
(***************************************************************************)
(* A state-machine model of TermUI (src/termui.hpp): the SelectableList    *)
(* interaction state machine, the Page scroll container, the App key       *)
(* dispatch with its tab window, and the POSIX raw-mode / signal paths of  *)
(* App::run.                                                               *)
(*                                                                         *)
(* Indices are 0-based as in the C++ source (cursor_, active_tab_,         *)
(* tab_offset_, scroll_); TLA+ sequences are 1-based, so element i of a    *)
(* vector v is v[i + 1].                                                   *)
(***************************************************************************)
EXTENDS Integers, Sequences, FiniteSets, TLC

VARIABLES
    pages,        \* App::pages_ : sequence of Page records
    active_tab,   \* App::active_tab_
    tab_offset,   \* App::tab_offset_
    running,      \* App::running_
    term,         \* what get_terminal_size() returns: [cols, rows]
    crashed,      \* the process aborted on an out-of-range vector read
    last,         \* the operation the last step performed, with its result
    pc,           \* where the thread of App::run stands
    handlers,     \* SIGINT/SIGTERM handler frames that interrupted it, innermost last
    tty,          \* the terminal's mode
    orig_termios, \* detail::orig_termios_ref()
    raw_mode_active, \* detail::raw_mode_active_ref()
    g_resize_flag,   \* detail::g_resize_flag_ref()
    inbuf,        \* bytes waiting on standard input
    loop_key,     \* what the last read_key() of the loop returned
    restores,     \* times tcsetattr applied orig_termios
    out,          \* what run() did to the terminal once its loop had ended, in order
    unread,       \* a SIGWINCH arrived and no read_key has returned KEY_RESIZE since
    unrendered,   \* a SIGWINCH arrived and no render has run since
    on_tick,      \* App::on_tick_ is set
    isatty,       \* standard input is a terminal
    wr,           \* a call of detail::write_raw: its argument, its locals, what arrived
    kb,           \* typed keys, their bytes, and how far the calls of read_key have read
    fb,           \* the FileBrowser: its fields, the texts of its page, its entries' captures
    calc          \* a call of a value-level function: its name, its arguments, its result

appvars == <<pages, active_tab, tab_offset, running, term, crashed, last>>

runvars ==
    <<pc, handlers, tty, orig_termios, raw_mode_active, g_resize_flag, inbuf,
      loop_key, restores, out, unread, unrendered, on_tick, isatty, wr, kb, fb, calc>>

vars == <<appvars, runvars>>

----------------------------------------------------------------------------
(* Bounds of the model.                                                    *)

MaxItems == 3        \* items a list may hold
MaxLines == 2        \* static lines a page may hold
MaxPages == 2        \* pages an App may hold
MaxScrollArg == 2    \* |n| of scroll_up(n) / scroll_down(n, .)
MaxScroll == 6       \* cap on |scroll_| (scroll_up(-n) grows it without limit)

(* The text of the item added at position i (0-based): items are told     *)
(* apart by their text, which names the position they were inserted at.    *)
ItemNames == <<"a", "b", "c", "d", "e", "f">>
ItemText(i) == ItemNames[i + 1]

----------------------------------------------------------------------------
(* detail::Key                                                             *)

KEY_NONE   == "KEY_NONE"
KEY_QUIT   == "KEY_QUIT"
KEY_CTRL_C == "KEY_CTRL_C"
KEY_LEFT   == "KEY_LEFT"
KEY_RIGHT  == "KEY_RIGHT"
KEY_UP     == "KEY_UP"
KEY_DOWN   == "KEY_DOWN"
KEY_ENTER  == "KEY_ENTER"
KEY_SPACE  == "KEY_SPACE"
KEY_RESIZE == "KEY_RESIZE"
KEY_OTHER  == "KEY_OTHER"

Key == {KEY_NONE, KEY_QUIT, KEY_CTRL_C, KEY_LEFT, KEY_RIGHT, KEY_UP,
        KEY_DOWN, KEY_ENTER, KEY_SPACE, KEY_RESIZE, KEY_OTHER}

Max(a, b) == IF a >= b THEN a ELSE b
Min(a, b) == IF a <= b THEN a ELSE b

----------------------------------------------------------------------------
(* SelectableList.  actions[i] and on_select say whether the std::function *)
(* is set; what a set callback does is chosen when it is invoked.          *)

SelectableList ==
    [items |-> <<>>, actions |-> <<>>, selected |-> <<>>,
     cursor |-> 0, multi_select |-> FALSE, on_select |-> FALSE]

add_item(l, item, action) ==
    [l EXCEPT !.items    = Append(@, item),
              !.actions  = Append(@, action),
              !.selected = Append(@, FALSE)]

set_on_select(l, cb) == [l EXCEPT !.on_select = cb]

(* Mutant: clear_items that forgets to reset the cursor.                   *)
clear_items_keeps_cursor(l) ==
    [l EXCEPT !.items = <<>>, !.actions = <<>>, !.selected = <<>>,
              !.on_select = FALSE]

clear_items(l) ==
    [l EXCEPT !.items = <<>>, !.actions = <<>>, !.selected = <<>>,
              !.cursor = 0, !.on_select = FALSE]

set_multi_select(l, enabled) == [l EXCEPT !.multi_select = enabled]

clear_selection(l) ==
    [l EXCEPT !.selected = [i \in 1..Len(l.selected) |-> FALSE]]

RECURSIVE SelectedFrom(_, _)
SelectedFrom(l, i) ==
    IF i >= Len(l.items) THEN <<>>
    ELSE (IF i < Len(l.selected) /\ l.selected[i + 1]
          THEN <<l.items[i + 1]>> ELSE <<>>) \o SelectedFrom(l, i + 1)

get_selected_items(l) == SelectedFrom(l, 0)

(* SelectableList::handle_key for every key but ENTER: the new list and    *)
(* the returned flag.                                                      *)
(* Mutant: UP that moves the cursor and still reports unchanged.           *)
list_key_up_reports_unchanged(l) ==
    IF l.cursor > 0
    THEN [list |-> [l EXCEPT !.cursor = @ - 1], ret |-> FALSE]
    ELSE [list |-> l, ret |-> FALSE]

list_key_up(l) ==
    IF l.cursor > 0
    THEN [list |-> [l EXCEPT !.cursor = @ - 1], ret |-> TRUE]
    ELSE [list |-> l, ret |-> FALSE]

(* Mutant: DOWN that wraps around to the first item.                       *)
list_key_down_wraps(l) ==
    IF l.cursor + 1 < Len(l.items)
    THEN [list |-> [l EXCEPT !.cursor = @ + 1], ret |-> TRUE]
    ELSE [list |-> [l EXCEPT !.cursor = 0], ret |-> TRUE]

list_key_down(l) ==
    IF l.cursor + 1 < Len(l.items)
    THEN [list |-> [l EXCEPT !.cursor = @ + 1], ret |-> TRUE]
    ELSE [list |-> l, ret |-> FALSE]

(* Mutant: SPACE that selects instead of toggling.                         *)
list_key_space_sets(l) ==
    IF l.multi_select
    THEN [list |-> IF l.cursor < Len(l.selected)
                   THEN [l EXCEPT !.selected[l.cursor + 1] = TRUE]
                   ELSE l,
          ret |-> TRUE]
    ELSE [list |-> l, ret |-> FALSE]

list_key_space(l) ==
    IF l.multi_select
    THEN [list |-> IF l.cursor < Len(l.selected)
                   THEN [l EXCEPT !.selected[l.cursor + 1] = ~@]
                   ELSE l,
          ret |-> TRUE]
    ELSE [list |-> l, ret |-> FALSE]

list_handle_key(l, key) ==
    IF l.items = <<>> THEN [list |-> l, ret |-> FALSE]
    ELSE CASE key = KEY_UP    -> list_key_up(l)
           [] key = KEY_DOWN  -> list_key_down(l)
           [] key = KEY_SPACE -> list_key_space(l)
           [] OTHER           -> [list |-> l, ret |-> FALSE]

----------------------------------------------------------------------------
(* Page.  title_w is the display width of the title, lines the number of   *)
(* static lines.                                                           *)

Page(title_w) ==
    [title_w |-> title_w, lines |-> 0, scroll |-> 0,
     has_list |-> FALSE, list |-> SelectableList]

add_line(p) == [p EXCEPT !.lines = @ + 1]

(* Mutant: clear that also detaches the list.                              *)
clear_detaches_list(p) ==
    [p EXCEPT !.lines = 0, !.scroll = 0, !.has_list = FALSE, !.list = SelectableList]

clear(p) == [p EXCEPT !.lines = 0, !.scroll = 0]

set_list(p, l) == [p EXCEPT !.list = l, !.has_list = TRUE]

total_lines(p) == p.lines + (IF p.has_list THEN Len(p.list.items) ELSE 0)

scroll_up(p, n) == [p EXCEPT !.scroll = Max(0, p.scroll - n)]

(* Mutant: scroll_down that does not clamp at max_scroll.                  *)
scroll_down_unclamped(p, n, visible_rows) == [p EXCEPT !.scroll = p.scroll + n]

scroll_down(p, n, visible_rows) ==
    LET effective_rows == IF visible_rows > 0 THEN visible_rows
                          ELSE total_lines(p)
        max_scroll     == Max(0, total_lines(p) - effective_rows)
    IN  [p EXCEPT !.scroll = Min(p.scroll + n, max_scroll)]

----------------------------------------------------------------------------
(* What a list callback (a per-item action or on_select) may do to the App *)
(* it closes over, by kind.  st = [pages, active_tab]; p is the 1-based    *)
(* position of the page that owns the list.                                *)
(*   rebuild         Page::clear then add_line (demo "rebuild" lambda)     *)
(*   set_list        Page::set_list with a freshly built list              *)
(*   clear_items, add_item, set_on_select   on the list itself             *)
(*   set_active_tab, add_page               on the App (zip demo)          *)

TitleWidths == {1, 3}
AddedTitleWidths == {3}

BuildList(n, action, cb) ==
    [items    |-> [i \in 1..n |-> ItemText(i - 1)],
     actions  |-> [i \in 1..n |-> action],
     selected |-> [i \in 1..n |-> FALSE],
     cursor |-> 0, multi_select |-> FALSE, on_select |-> cb]

FreshLists ==
    {BuildList(0, FALSE, FALSE), BuildList(0, FALSE, TRUE),
     BuildList(1, FALSE, FALSE), BuildList(2, TRUE, TRUE)}

RECURSIVE add_lines(_, _)
add_lines(p, k) == IF k = 0 THEN p ELSE add_lines(add_line(p), k - 1)

ListKinds == {"none", "set_list", "clear_items", "add_item", "set_on_select"}
AppKinds  == {"none", "set_list", "rebuild", "set_active_tab", "add_page"}

(* Mutant: add_page that inserts the new page before the others.          *)
add_page_in_front(pgs, w) == <<Page(w)>> \o pgs

(* App::add_page(name), name w columns wide.                               *)
add_page(pgs, w) == Append(pgs, Page(w))

CallbackOutcomes(kind, st, p) ==
    LET l == st.pages[p].list IN
    CASE kind = "none" -> {st}
      [] kind = "rebuild" ->
            {[st EXCEPT !.pages[p] = add_lines(clear(@), k)] : k \in 0..MaxLines}
      [] kind = "set_list" ->
            {[st EXCEPT !.pages[p] = set_list(@, fl)] : fl \in FreshLists}
      [] kind = "clear_items" ->
            {[st EXCEPT !.pages[p].list = clear_items(@)]}
      [] kind = "add_item" ->
            IF Len(l.items) < MaxItems
            THEN {[st EXCEPT !.pages[p].list = add_item(@, ItemText(Len(l.items)), a)] :
                     a \in BOOLEAN}
            ELSE {st}
      [] kind = "set_on_select" ->
            {[st EXCEPT !.pages[p].list = set_on_select(@, TRUE)]}
      [] kind = "set_active_tab" ->
            {[st EXCEPT !.active_tab = IF i < Len(st.pages) THEN i ELSE @] :
                 i \in 0..MaxPages}
      [] kind = "add_page" ->
            IF Len(st.pages) < MaxPages
            THEN {[st EXCEPT !.pages = add_page(@, w)] : w \in AddedTitleWidths}
            ELSE {st}

Outcomes(kinds, st, p) ==
    UNION {{[kind |-> k, st |-> s] : s \in CallbackOutcomes(k, st, p)} : k \in kinds}

(* SelectableList::handle_key, case KEY_ENTER, on the list of page p.      *)
(* items_[cursor_] is read after the action has returned; when the action  *)
(* left no item at cursor_ the read is out of range: the callback is       *)
(* handed whatever the vector's storage holds, or the process aborts.      *)
Garbage == "<out of range>"

Call(fn, l, kind) ==
    [fn |-> fn, index |-> l.cursor,
     item |-> IF l.cursor < Len(l.items) THEN l.items[l.cursor + 1] ELSE Garbage,
     effect |-> kind]

EnterAction(st, p, kinds) ==
    LET l == st.pages[p].list IN
    IF l.actions # <<>> /\ l.actions[l.cursor + 1]
    THEN {[st |-> o.st, calls |-> <<Call("action", l, o.kind)>>] :
              o \in Outcomes(kinds, st, p)}
    ELSE {[st |-> st, calls |-> <<>>]}

EnterOnSelect(r, p, kinds) ==
    LET l == r.st.pages[p].list IN
    IF ~l.on_select
    THEN {[st |-> r.st, ret |-> TRUE, calls |-> r.calls, crashed |-> FALSE]}
    ELSE {[st |-> o.st, ret |-> TRUE,
           calls |-> Append(r.calls, Call("on_select", l, o.kind)),
           crashed |-> FALSE] : o \in Outcomes(kinds, r.st, p)}
         \cup (IF l.cursor < Len(l.items) THEN {}
               ELSE {[st |-> r.st, ret |-> FALSE, calls |-> r.calls,
                      crashed |-> TRUE]})

(* Mutant: ENTER that runs on_select before the item's action.             *)
list_key_enter_on_select_first(st, p, kinds) ==
    IF st.pages[p].list.items = <<>>
    THEN {[st |-> st, ret |-> FALSE, calls |-> <<>>, crashed |-> FALSE]}
    ELSE UNION {{[st |-> a.st, ret |-> r.ret, calls |-> r.calls \o a.calls,
                  crashed |-> r.crashed] : a \in EnterAction(r.st, p, kinds)} :
                r \in EnterOnSelect([st |-> st, calls |-> <<>>], p, kinds)}

list_key_enter(st, p, kinds) ==
    IF st.pages[p].list.items = <<>>
    THEN {[st |-> st, ret |-> FALSE, calls |-> <<>>, crashed |-> FALSE]}
    ELSE UNION {EnterOnSelect(r, p, kinds) : r \in EnterAction(st, p, kinds)}

----------------------------------------------------------------------------
(* SpecList: the SelectableList API driven directly on the list that page  *)
(* 0 owns.                                                                 *)

TheList == pages[1].list

Op(name, key, ret, calls) ==
    [op |-> name, key |-> key, ret |-> ret, calls |-> calls,
     n |-> 0, visible_rows |-> 0, rendered |-> FALSE]

(* No call of write_raw under way.                                         *)
WrIdle ==
    [s |-> <<>>, ptr |-> 0, remaining |-> 0, delivered |-> <<>>, pc |-> "idle",
     errno |-> "none"]

(* Nothing typed, read_key never called.                                   *)
KbIdle == [typed |-> <<>>, start |-> 0, pos |-> 0, keys |-> <<>>]

(* No FileBrowser attached to the App.                                     *)
FbIdle ==
    [current_path |-> <<>>, selected_file |-> <<>>, on_file_selected |-> FALSE,
     page |-> 0, lines |-> <<>>, captures |-> <<>>]

(* No value-level function called.                                         *)
CalcIdle == [fn |-> "none"]

(* The components a specification does not execute stay as constructed.    *)
IoIdle == wr = WrIdle /\ kb = KbIdle /\ fb = FbIdle /\ calc = CalcIdle

iovars == <<wr, kb, fb, calc>>

(* The specifications of the list, page and key-dispatch operations do not *)
(* execute App::run: its process state stays as before the call.           *)
RunIdle ==
    /\ pc = "idle"
    /\ handlers = <<>>
    /\ tty = "cooked"
    /\ orig_termios = "unset"
    /\ raw_mode_active = FALSE
    /\ g_resize_flag = 0
    /\ inbuf = 0
    /\ loop_key = KEY_NONE
    /\ restores = 0
    /\ out = <<>>
    /\ unread = FALSE
    /\ unrendered = FALSE
    /\ on_tick = FALSE
    /\ isatty = TRUE
    /\ IoIdle

ListStep(name, l) ==
    /\ ~crashed
    /\ pages' = [pages EXCEPT ![1].list = l]
    /\ last' = Op(name, KEY_NONE, FALSE, <<>>)
    /\ UNCHANGED <<active_tab, tab_offset, running, term, crashed>>
    /\ UNCHANGED runvars

LAddItem ==
    /\ Len(TheList.items) < MaxItems
    /\ \E a \in BOOLEAN :
          ListStep("add_item", add_item(TheList, ItemText(Len(TheList.items)), a))

LSetOnSelect == \E cb \in BOOLEAN : ListStep("set_on_select", set_on_select(TheList, cb))

LClearItems == ListStep("clear_items", clear_items(TheList))

LSetMultiSelect ==
    \E en \in BOOLEAN : ListStep("set_multi_select", set_multi_select(TheList, en))

LClearSelection == ListStep("clear_selection", clear_selection(TheList))

LHandleKey ==
    /\ ~crashed
    /\ \E key \in Key \ {KEY_ENTER} :
          LET r == list_handle_key(TheList, key) IN
          /\ pages' = [pages EXCEPT ![1].list = r.list]
          /\ last' = Op("handle_key", key, r.ret, <<>>)
    /\ UNCHANGED <<active_tab, tab_offset, running, term, crashed>>
    /\ UNCHANGED runvars

LHandleEnter ==
    /\ ~crashed
    /\ \E r \in list_key_enter([pages |-> pages, active_tab |-> active_tab], 1, ListKinds) :
          /\ pages' = r.st.pages
          /\ active_tab' = r.st.active_tab
          /\ crashed' = r.crashed
          /\ last' = Op("handle_key", KEY_ENTER, r.ret, r.calls)
    /\ UNCHANGED <<tab_offset, running, term>>
    /\ UNCHANGED runvars

InitList ==
    /\ pages = <<set_list(Page(1), SelectableList)>>
    /\ active_tab = 0
    /\ tab_offset = 0
    /\ running = FALSE
    /\ term = [cols |-> 80, rows |-> 24]
    /\ crashed = FALSE
    /\ last = Op("init", KEY_NONE, FALSE, <<>>)
    /\ RunIdle

NextList ==
    \/ LAddItem
    \/ LSetOnSelect
    \/ LClearItems
    \/ LSetMultiSelect
    \/ LClearSelection
    \/ LHandleKey
    \/ LHandleEnter

SpecList == InitList /\ [][NextList]_vars

----------------------------------------------------------------------------
(* SpecPage: the Page API driven on page 0, under a terminal whose height  *)
(* changes.  content_rows is the viewport height App::handle_key and       *)
(* App::render derive from the terminal.                                   *)

TermSizes ==
    {[cols |-> 10, rows |-> 5], [cols |-> 16, rows |-> 7],
     [cols |-> 9, rows |-> 5], [cols |-> 10, rows |-> 4]}

content_rows(ts) == Max(1, ts.rows - 3)

ThePage == pages[1]

PageOp(name, n, visible_rows) ==
    [op |-> name, key |-> KEY_NONE, ret |-> FALSE, calls |-> <<>>,
     n |-> n, visible_rows |-> visible_rows, rendered |-> FALSE]

PageStep(op, p) ==
    /\ pages' = [pages EXCEPT ![1] = p]
    /\ last' = op
    /\ UNCHANGED <<active_tab, tab_offset, running, term, crashed>>
    /\ UNCHANGED runvars

PAddLine ==
    /\ ThePage.lines < MaxLines
    /\ PageStep(PageOp("add_line", 0, 0), add_line(ThePage))

PClear == PageStep(PageOp("clear", 0, 0), clear(ThePage))

PSetList == \E fl \in FreshLists : PageStep(PageOp("set_list", 0, 0), set_list(ThePage, fl))

ScrollArgs == (0 - MaxScrollArg)..MaxScrollArg

PScrollUp ==
    \E n \in ScrollArgs :
       /\ ThePage.scroll - n <= MaxScroll
       /\ PageStep(PageOp("scroll_up", n, content_rows(term)), scroll_up(ThePage, n))

PScrollDown ==
    \E n \in ScrollArgs, visible_rows \in {0, content_rows(term)} :
       /\ ThePage.scroll + n >= 0 - MaxScroll
       /\ PageStep(PageOp("scroll_down", n, visible_rows),
                   scroll_down(ThePage, n, visible_rows))

(* The terminal is resized: get_terminal_size() returns another size.      *)
ResizeTo(sizes) ==
    /\ term' \in sizes \ {term}
    /\ last' = PageOp("resize", 0, 0)
    /\ UNCHANGED <<pages, active_tab, tab_offset, running, crashed>>
    /\ UNCHANGED runvars

Resize == ResizeTo(TermSizes)

InitPage ==
    /\ pages = <<Page(1)>>
    /\ active_tab = 0
    /\ tab_offset = 0
    /\ running = FALSE
    /\ term \in TermSizes
    /\ crashed = FALSE
    /\ last = PageOp("init", 0, 0)
    /\ RunIdle

NextPage ==
    \/ PAddLine
    \/ PClear
    \/ PSetList
    \/ PScrollUp
    \/ PScrollDown
    \/ Resize

SpecPage == InitPage /\ [][NextPage]_vars

----------------------------------------------------------------------------
(* App: render's tab window and handle_key.                                *)

RECURSIVE clv_loop(_, _, _, _, _)
clv_loop(pgs, i, used, lastv, budget) ==
    IF i >= Len(pgs) THEN lastv
    ELSE LET tab_w         == pgs[i + 1].title_w + 2
             right_reserve == IF i + 1 < Len(pgs) THEN 2 ELSE 0
         IN  IF used + 1 + tab_w + right_reserve > budget THEN lastv
             ELSE clv_loop(pgs, i + 1, used + 1 + tab_w, i, budget)

compute_last_visible(pgs, offset, budget) ==
    IF offset >= Len(pgs) THEN offset
    ELSE clv_loop(pgs, offset + 1, pgs[offset + 1].title_w + 2, offset, budget)

RECURSIVE advance_tab_offset(_, _, _, _)
advance_tab_offset(pgs, at, to, W) ==
    LET budget == W - 3 - (IF to > 0 THEN 2 ELSE 0)
        lv     == compute_last_visible(pgs, to, budget)
    IN  IF at <= lv THEN to ELSE advance_tab_offset(pgs, at, to + 1, W)

(* App::render, as far as it changes the App: tab_offset_.  No frame is    *)
(* built when the terminal is narrower than 10 columns or shorter than 5   *)
(* rows.                                                                   *)
render_skipped(ts) == ts.cols < 10 \/ ts.rows < 5

(* Mutant: render without the test that moves tab_offset_ left onto the    *)
(* active tab.                                                             *)
render_no_left_clamp(pgs, at, to, ts) ==
    IF render_skipped(ts) THEN to ELSE advance_tab_offset(pgs, at, to, ts.cols)

render(pgs, at, to, ts) ==
    IF render_skipped(ts) THEN to
    ELSE advance_tab_offset(pgs, at, IF at < to THEN at ELSE to, ts.cols)

ActivePage == pages[active_tab + 1]

AppOp(key, ret, calls, rendered) ==
    [op |-> "App::handle_key", key |-> key, ret |-> ret, calls |-> calls,
     n |-> 0, visible_rows |-> 0, rendered |-> rendered]

(* Mutant: Ctrl-C does not stop the loop.                                  *)
control_key_ctrl_c_ignored(k) ==
    [running |-> k # KEY_QUIT, rendered |-> k = KEY_RESIZE]

(* Mutant: KEY_RESIZE handled without a render.                            *)
control_key_resize_not_rendered(k) ==
    [running |-> k \notin {KEY_QUIT, KEY_CTRL_C}, rendered |-> FALSE]

(* App::handle_key on KEY_NONE, KEY_QUIT, KEY_CTRL_C and KEY_RESIZE: what  *)
(* becomes of running_, and whether render() runs.                         *)
control_key(k) ==
    [running |-> k \notin {KEY_QUIT, KEY_CTRL_C}, rendered |-> k = KEY_RESIZE]

ControlKeys == {KEY_NONE, KEY_QUIT, KEY_CTRL_C, KEY_RESIZE}

(* KEY_NONE returns at once; KEY_QUIT and KEY_CTRL_C stop the loop;        *)
(* KEY_RESIZE renders.                                                     *)
AKeyControlOn(k) ==
    /\ running /\ ~crashed
    /\ k \in ControlKeys
    /\ running' = control_key(k).running
    /\ tab_offset' = IF control_key(k).rendered
                     THEN render(pages, active_tab, tab_offset, term)
                     ELSE tab_offset
    /\ last' = AppOp(k, FALSE, <<>>, control_key(k).rendered)
    /\ UNCHANGED <<pages, active_tab, term, crashed>>

AKeyControl == (\E k \in ControlKeys : AKeyControlOn(k)) /\ UNCHANGED runvars

(* Mutant: the switch with RIGHT not clamped at the last tab.              *)
app_navigate_right_unclamped(pgs, at, to, ts, key) ==
    CASE key = KEY_LEFT ->
            IF at > 0
            THEN LET to1 == IF at - 1 < to THEN at - 1 ELSE to IN
                 <<pgs, at - 1, render(pgs, at - 1, to1, ts), TRUE>>
            ELSE <<pgs, at, to, FALSE>>
      [] key = KEY_RIGHT ->
            IF at < Len(pgs)
            THEN <<pgs, at + 1, render(pgs, at + 1, to, ts), TRUE>>
            ELSE <<pgs, at, to, FALSE>>
      [] key = KEY_UP ->
            <<[pgs EXCEPT ![at + 1] = scroll_up(@, 1)], at,
              render(pgs, at, to, ts), TRUE>>
      [] key = KEY_DOWN ->
            <<[pgs EXCEPT ![at + 1] = scroll_down(@, 1, content_rows(ts))], at,
              render(pgs, at, to, ts), TRUE>>
      [] OTHER -> <<pgs, at, to, FALSE>>

(* A switch whose LEFT and RIGHT scroll the page that is left back to its  *)
(* top.                                                                    *)
app_navigate_resets_scroll(pgs, at, to, ts, key) ==
    LET left == [pgs EXCEPT ![at + 1].scroll = 0] IN
    CASE key = KEY_LEFT ->
            IF at > 0
            THEN LET to1 == IF at - 1 < to THEN at - 1 ELSE to IN
                 <<left, at - 1, render(left, at - 1, to1, ts), TRUE>>
            ELSE <<pgs, at, to, FALSE>>
      [] key = KEY_RIGHT ->
            IF at + 1 < Len(pgs)
            THEN <<left, at + 1, render(left, at + 1, to, ts), TRUE>>
            ELSE <<pgs, at, to, FALSE>>
      [] key = KEY_UP ->
            <<[pgs EXCEPT ![at + 1] = scroll_up(@, 1)], at,
              render(pgs, at, to, ts), TRUE>>
      [] key = KEY_DOWN ->
            <<[pgs EXCEPT ![at + 1] = scroll_down(@, 1, content_rows(ts))], at,
              render(pgs, at, to, ts), TRUE>>
      [] OTHER -> <<pgs, at, to, FALSE>>

(* The switch of App::handle_key, reached when the list did not consume    *)
(* the key: the new <<pages, active_tab, tab_offset, rendered>>.           *)
app_navigate(pgs, at, to, ts, key) ==
    CASE key = KEY_LEFT ->
            IF at > 0
            THEN LET to1 == IF at - 1 < to THEN at - 1 ELSE to IN
                 <<pgs, at - 1, render(pgs, at - 1, to1, ts), TRUE>>
            ELSE <<pgs, at, to, FALSE>>
      [] key = KEY_RIGHT ->
            IF at + 1 < Len(pgs)
            THEN <<pgs, at + 1, render(pgs, at + 1, to, ts), TRUE>>
            ELSE <<pgs, at, to, FALSE>>
      [] key = KEY_UP ->
            <<[pgs EXCEPT ![at + 1] = scroll_up(@, 1)], at,
              render(pgs, at, to, ts), TRUE>>
      [] key = KEY_DOWN ->
            <<[pgs EXCEPT ![at + 1] = scroll_down(@, 1, content_rows(ts))], at,
              render(pgs, at, to, ts), TRUE>>
      [] OTHER -> <<pgs, at, to, FALSE>>

(* Every key but ENTER and the control keys: offered to the active page's  *)
(* list, and handled by the switch when the list reports unchanged.        *)
OfferedKeys == {KEY_LEFT, KEY_RIGHT, KEY_UP, KEY_DOWN, KEY_SPACE, KEY_OTHER}

AKeyOn(k) ==
    /\ running /\ ~crashed
    /\ k \in OfferedKeys
    /\    LET p == ActivePage
              r == list_handle_key(p.list, k)
          IN  IF p.has_list /\ r.ret
              THEN /\ pages' = [pages EXCEPT ![active_tab + 1].list = r.list]
                   /\ tab_offset' = render(pages', active_tab, tab_offset, term)
                   /\ last' = AppOp(k, TRUE, <<>>, TRUE)
                   /\ UNCHANGED active_tab
              ELSE LET pgs == IF p.has_list
                              THEN [pages EXCEPT ![active_tab + 1].list = r.list]
                              ELSE pages
                       nav == app_navigate(pgs, active_tab, tab_offset, term, k)
                   IN
                   /\ pages' = nav[1]
                   /\ active_tab' = nav[2]
                   /\ tab_offset' = nav[3]
                   /\ last' = AppOp(k, FALSE, <<>>, nav[4])
    /\ UNCHANGED <<running, term, crashed>>

AKey == (\E k \in OfferedKeys : AKeyOn(k)) /\ UNCHANGED runvars

(* ENTER: with a non-empty list the callbacks run and a render follows;    *)
(* otherwise the key reaches the switch's default.                         *)
AKeyEnterOn ==
    /\ running /\ ~crashed
    /\ LET p == ActivePage IN
       IF p.has_list
       THEN \E r \in list_key_enter([pages |-> pages, active_tab |-> active_tab],
                                    active_tab + 1, AppKinds) :
               /\ pages' = r.st.pages
               /\ active_tab' = r.st.active_tab
               /\ crashed' = r.crashed
               /\ tab_offset' = IF r.ret
                                THEN render(pages', active_tab', tab_offset, term)
                                ELSE tab_offset
               /\ last' = AppOp(KEY_ENTER, r.ret, r.calls, r.ret)
       ELSE /\ last' = AppOp(KEY_ENTER, FALSE, <<>>, FALSE)
            /\ UNCHANGED <<pages, active_tab, tab_offset, crashed>>
    /\ UNCHANGED <<running, term>>

AKeyEnter == AKeyEnterOn /\ UNCHANGED runvars

(* App::run on a read timeout, with an on_tick callback that calls         *)
(* App::set_active_tab(index): the callback, then a render.                *)
set_active_tab(pgs, at, index) == IF index < Len(pgs) THEN index ELSE at

ATickSetActiveTab ==
    /\ running /\ ~crashed
    /\ \E index \in 0..MaxPages :
          /\ active_tab' = set_active_tab(pages, active_tab, index)
          /\ tab_offset' = render(pages, active_tab', tab_offset, term)
          /\ last' = [op |-> "set_active_tab", key |-> KEY_NONE, ret |-> FALSE,
                      calls |-> <<>>, n |-> index, visible_rows |-> 0,
                      rendered |-> TRUE]
    /\ UNCHANGED <<pages, running, term, crashed>>
    /\ UNCHANGED runvars

AppTermSizes ==
    {[cols |-> 10, rows |-> 5], [cols |-> 16, rows |-> 7], [cols |-> 9, rows |-> 4]}

AResize == ResizeTo(AppTermSizes)

AppLists ==
    FreshLists \cup {set_multi_select(BuildList(2, FALSE, FALSE), TRUE)}

InitPages ==
    {<<set_list(add_lines(Page(w), MaxLines), l)>> :
        w \in TitleWidths, l \in AppLists}
    \cup {<<set_list(add_lines(Page(w), MaxLines), l), add_lines(Page(v), MaxLines)>> :
        w \in TitleWidths, v \in AddedTitleWidths, l \in AppLists}

(* The state in which the event loop starts: run() has set running_ and    *)
(* rendered once.                                                          *)
InitApp ==
    /\ pages \in InitPages
    /\ active_tab = 0
    /\ term \in AppTermSizes
    /\ tab_offset = render(pages, active_tab, 0, term)
    /\ running = TRUE
    /\ crashed = FALSE
    /\ last = Op("init", KEY_NONE, FALSE, <<>>)
    /\ RunIdle

NextApp ==
    \/ AKeyControl
    \/ AKey
    \/ AKeyEnter
    \/ ATickSetActiveTab
    \/ AResize

SpecApp == InitApp /\ [][NextApp]_vars

----------------------------------------------------------------------------
(* App::run with its signal handlers (POSIX).  The thread of run() stands  *)
(* at pc; a SIGINT or SIGTERM handler that interrupted it is a frame of    *)
(* handlers, and only the innermost frame runs.  sa_mask is empty, so      *)
(* while one of the two handlers runs only its own signal is blocked.  The *)
(* SIGWINCH handler is one store and runs as one step.                     *)

MaxInput == 1        \* bytes that may wait on standard input

TermSignals == {"SIGINT", "SIGTERM"}

(* Keys read_key() decodes from input.                                     *)
InputKeys == {KEY_QUIT, KEY_CTRL_C, KEY_DOWN, KEY_ENTER, KEY_OTHER}

InHandler == handlers # <<>>

Here == IF InHandler THEN handlers[Len(handlers)].pc ELSE pc

Goto(p) ==
    IF InHandler
    THEN handlers' = [handlers EXCEPT ![Len(handlers)].pc = p] /\ UNCHANGED pc
    ELSE pc' = p /\ UNCHANGED handlers

Alive == pc # "exited" /\ ~crashed

MainAt(p) == Alive /\ ~InHandler /\ pc = p

(* What a step of run() leaves alone unless it says otherwise.             *)
ttyvars == <<tty, orig_termios, raw_mode_active, restores, out>>
resizevars == <<g_resize_flag, unread, unrendered>>
envvars == <<on_tick, isatty, iovars>>

(* run(): pages_ is not empty; install_signals().                          *)
RInstallSignals ==
    /\ MainAt("install_signals")
    /\ pc' = "tcgetattr"
    /\ UNCHANGED <<appvars, handlers, ttyvars, resizevars, envvars, inbuf, loop_key>>

(* Mutant: enter_raw_mode that does not test what tcgetattr returned.      *)
RTcgetattr_unchecked ==
    /\ MainAt("tcgetattr")
    /\ orig_termios' = (IF isatty THEN tty ELSE orig_termios)
    /\ pc' = "tcsetattr_raw"
    /\ UNCHANGED <<appvars, handlers, tty, raw_mode_active, restores, out, resizevars,
                   envvars, inbuf, loop_key>>

(* enter_raw_mode: tcgetattr saves the mode, or fails when standard input  *)
(* is not a terminal and enter_raw_mode returns.                           *)
RTcgetattr ==
    /\ MainAt("tcgetattr")
    /\ IF isatty
       THEN orig_termios' = tty /\ pc' = "tcsetattr_raw"
       ELSE UNCHANGED orig_termios /\ pc' = "first_render"
    /\ UNCHANGED <<appvars, handlers, tty, raw_mode_active, restores, out, resizevars,
                   envvars, inbuf, loop_key>>

(* tcsetattr(TCSAFLUSH, &raw): pending input is discarded.                 *)
RTcsetattrRaw ==
    /\ MainAt("tcsetattr_raw")
    /\ tty' = "raw"
    /\ inbuf' = 0
    /\ pc' = "set_active"
    /\ UNCHANGED <<appvars, handlers, orig_termios, raw_mode_active, restores, out,
                   resizevars, envvars, loop_key>>

RSetActive ==
    /\ MainAt("set_active")
    /\ raw_mode_active' = TRUE
    /\ pc' = "first_render"
    /\ UNCHANGED <<appvars, handlers, tty, orig_termios, restores, out, resizevars,
                   envvars, inbuf, loop_key>>

(* hide_cursor(); running_ = true; render();                               *)
RFirstRender ==
    /\ MainAt("first_render")
    /\ running' = TRUE
    /\ tab_offset' = render(pages, active_tab, tab_offset, term)
    /\ unrendered' = FALSE
    /\ pc' = "while"
    /\ UNCHANGED <<pages, active_tab, term, crashed, last, handlers, ttyvars,
                   g_resize_flag, unread, envvars, inbuf, loop_key>>

RWhile ==
    /\ MainAt("while")
    /\ pc' = IF running THEN "read_key" ELSE "show_cursor"
    /\ UNCHANGED <<appvars, handlers, ttyvars, resizevars, envvars, inbuf, loop_key>>

(* read_key: the test of the resize flag.                                  *)
RkTest ==
    /\ MainAt("read_key")
    /\ pc' = IF g_resize_flag # 0 THEN "clear_flag" ELSE "read"
    /\ UNCHANGED <<appvars, handlers, ttyvars, resizevars, envvars, inbuf, loop_key>>

(* read_key: the flag is cleared and KEY_RESIZE returned.                  *)
RkClear ==
    /\ MainAt("clear_flag")
    /\ g_resize_flag' = 0
    /\ unread' = FALSE
    /\ loop_key' = KEY_RESIZE
    /\ pc' = "dispatch"
    /\ UNCHANGED <<appvars, handlers, ttyvars, unrendered, envvars, inbuf>>

(* read_key: read() returns a byte when one waits.  With none, a terminal  *)
(* in raw mode (VMIN 0, VTIME 1) returns nothing after 100 ms; input that  *)
(* is not a terminal is at its end, or the read blocks.                    *)
RkRead ==
    /\ MainAt("read")
    /\ IF inbuf > 0
       THEN inbuf' = inbuf - 1 /\ loop_key' \in InputKeys /\ pc' = "dispatch"
       ELSE /\ inbuf' = inbuf
            /\ \/ loop_key' = KEY_NONE /\ pc' = "dispatch"
               \/ ~isatty /\ loop_key' = loop_key /\ pc' = "blocked"
    /\ UNCHANGED <<appvars, handlers, ttyvars, resizevars, envvars>>

(* The blocked read() returns the byte that arrived, or fails with EINTR   *)
(* after a handler ran (sa_flags has no SA_RESTART): n <= 0, KEY_NONE.     *)
RkWake ==
    /\ \/ MainAt("blocked") /\ inbuf > 0
          /\ inbuf' = inbuf - 1 /\ loop_key' \in InputKeys
       \/ MainAt("interrupted")
          /\ inbuf' = inbuf /\ loop_key' = KEY_NONE
    /\ pc' = "dispatch"
    /\ UNCHANGED <<appvars, handlers, ttyvars, resizevars, envvars>>

(* The KEY_NONE branch of run(): if (on_tick_) { on_tick_(); render(); }   *)
timeout_tick(tick) ==
    [calls |-> IF tick
               THEN <<[fn |-> "on_tick", index |-> 0, item |-> "", effect |-> "none"]>>
               ELSE <<>>,
     rendered |-> tick]

(* KEY_NONE: on_tick_, when set, runs and a render follows.                *)
RTick ==
    /\ MainAt("dispatch")
    /\ loop_key = KEY_NONE
    /\ tab_offset' = IF timeout_tick(on_tick).rendered
                     THEN render(pages, active_tab, tab_offset, term)
                     ELSE tab_offset
    /\ unrendered' = (unrendered /\ ~timeout_tick(on_tick).rendered)
    /\ last' = [op |-> "timeout", key |-> KEY_NONE, ret |-> FALSE,
                calls |-> timeout_tick(on_tick).calls, n |-> 0,
                visible_rows |-> 0, rendered |-> timeout_tick(on_tick).rendered]
    /\ pc' = "while"
    /\ UNCHANGED <<pages, active_tab, running, term, crashed, handlers,
                   ttyvars, g_resize_flag, unread, envvars, inbuf, loop_key>>

(* Any other key: App::handle_key.                                         *)
RHandleKey ==
    /\ MainAt("dispatch")
    /\ loop_key # KEY_NONE
    /\ \/ AKeyControlOn(loop_key)
       \/ AKeyOn(loop_key)
       \/ loop_key = KEY_ENTER /\ AKeyEnterOn
    /\ unrendered' = (unrendered /\ ~last'.rendered)
    /\ pc' = "while"
    /\ UNCHANGED <<handlers, ttyvars, g_resize_flag, unread, envvars, inbuf, loop_key>>

(* After the loop: show_cursor(); clear_screen(); move_cursor(0, 0); then  *)
(* exit_raw_mode().                                                        *)
CleanupStep(at, what, next) ==
    /\ MainAt(at)
    /\ out' = Append(out, what)
    /\ pc' = next
    /\ UNCHANGED <<appvars, handlers, tty, orig_termios, raw_mode_active, restores,
                   resizevars, envvars, inbuf, loop_key>>

RShowCursor == CleanupStep("show_cursor", "show_cursor", "clear_screen")

RClearScreen == CleanupStep("clear_screen", "clear_screen", "move_cursor")

RMoveCursor == CleanupStep("move_cursor", "move_cursor(0, 0)", "exit_raw_mode")

RCleanup == RShowCursor \/ RClearScreen \/ RMoveCursor

(* exit_raw_mode, called by run() and by the SIGINT/SIGTERM handler: the   *)
(* test of raw_mode_active, ...                                            *)
AfterExitRawMode == IF InHandler THEN "_Exit" ELSE "returned"

XTest ==
    /\ Alive /\ Here = "exit_raw_mode"
    /\ Goto(IF raw_mode_active THEN "tcsetattr_orig" ELSE AfterExitRawMode)
    /\ out' = IF InHandler THEN out ELSE Append(out, "exit_raw_mode")
    /\ UNCHANGED <<appvars, tty, orig_termios, raw_mode_active, restores,
                   resizevars, envvars, inbuf, loop_key>>

(* ... tcsetattr(TCSAFLUSH, &orig_termios), ...                            *)
XTcsetattr ==
    /\ Alive /\ Here = "tcsetattr_orig"
    /\ tty' = orig_termios
    /\ restores' = restores + 1
    /\ inbuf' = 0
    /\ Goto("clear_active")
    /\ UNCHANGED <<appvars, orig_termios, raw_mode_active, out, resizevars, envvars,
                   loop_key>>

(* ... and raw_mode_active = false.                                        *)
XClear ==
    /\ Alive /\ Here = "clear_active"
    /\ raw_mode_active' = FALSE
    /\ Goto(AfterExitRawMode)
    /\ UNCHANGED <<appvars, tty, orig_termios, restores, out, resizevars, envvars,
                   inbuf, loop_key>>

(* The SIGINT/SIGTERM handler: write() of the escape sequence, then        *)
(* exit_raw_mode(), then _Exit(0).                                         *)
HWrite ==
    /\ Alive /\ InHandler /\ Here = "write"
    /\ Goto("exit_raw_mode")
    /\ UNCHANGED <<appvars, ttyvars, resizevars, envvars, inbuf, loop_key>>

HExit ==
    /\ Alive /\ InHandler /\ Here = "_Exit"
    /\ pc' = "exited"
    /\ handlers' = <<>>
    /\ UNCHANGED <<appvars, ttyvars, resizevars, envvars, inbuf, loop_key>>

HandlersInstalled == pc \notin {"idle", "install_signals"}

(* SIGINT or SIGTERM is delivered: its handler interrupts whatever runs,   *)
(* unless that signal's handler is already running.                        *)
SigTerminate ==
    /\ Alive /\ HandlersInstalled
    /\ \E sig \in TermSignals :
          /\ \A i \in 1..Len(handlers) : handlers[i].sig # sig
          /\ handlers' = Append(handlers, [sig |-> sig, pc |-> "write"])
    /\ UNCHANGED <<appvars, pc, ttyvars, resizevars, envvars, inbuf, loop_key>>

(* SIGWINCH is delivered: its handler stores 1 in the resize flag, and a   *)
(* read() it interrupted fails with EINTR.                                 *)
SigWinch ==
    /\ Alive /\ HandlersInstalled
    /\ g_resize_flag' = 1
    /\ unread' = TRUE
    /\ unrendered' = TRUE
    /\ pc' = IF pc = "blocked" THEN "interrupted" ELSE pc
    /\ UNCHANGED <<appvars, handlers, ttyvars, envvars, inbuf, loop_key>>

(* The user types a key.                                                   *)
TypeKey ==
    /\ Alive
    /\ inbuf < MaxInput
    /\ inbuf' = inbuf + 1
    /\ UNCHANGED <<appvars, pc, handlers, ttyvars, resizevars, envvars, loop_key>>

(* run() is called on an App with one page of static lines, from a         *)
(* terminal in its cooked mode or with standard input redirected.          *)
InitRun ==
    /\ pages = <<add_lines(Page(1), MaxLines)>>
    /\ active_tab = 0
    /\ tab_offset = 0
    /\ running = FALSE
    /\ term = [cols |-> 80, rows |-> 24]
    /\ crashed = FALSE
    /\ last = Op("init", KEY_NONE, FALSE, <<>>)
    /\ pc = "install_signals"
    /\ handlers = <<>>
    /\ tty = "cooked"
    /\ orig_termios = "unset"
    /\ raw_mode_active = FALSE
    /\ g_resize_flag = 0
    /\ inbuf \in 0..MaxInput
    /\ loop_key = KEY_NONE
    /\ restores = 0
    /\ out = <<>>
    /\ unread = FALSE
    /\ unrendered = FALSE
    /\ on_tick \in BOOLEAN
    /\ isatty \in BOOLEAN
    /\ IoIdle

(* The steps the process takes itself.                                     *)
ProcessStep ==
    \/ RInstallSignals
    \/ RTcgetattr
    \/ RTcsetattrRaw
    \/ RSetActive
    \/ RFirstRender
    \/ RWhile
    \/ RkTest
    \/ RkClear
    \/ RkRead
    \/ RkWake
    \/ RTick
    \/ RHandleKey
    \/ RCleanup
    \/ XTest
    \/ XTcsetattr
    \/ XClear
    \/ HWrite
    \/ HExit

NextRun ==
    \/ ProcessStep
    \/ SigTerminate
    \/ SigWinch
    \/ TypeKey

SpecRun == InitRun /\ [][NextRun]_vars

(* The process keeps taking steps while it has one to take; signals and    *)
(* keystrokes come when they come.                                         *)
SpecRunFair == SpecRun /\ WF_vars(ProcessStep)

----------------------------------------------------------------------------
(* App::run on a terminal with no signal delivered, on Apps whose first    *)
(* page carries a list with callbacks.                                     *)

LoopPages ==
    {<<set_list(add_lines(Page(1), MaxLines), l)>> : l \in AppLists}

InitLoop ==
    /\ pages \in LoopPages
    /\ active_tab = 0
    /\ tab_offset = 0
    /\ running = FALSE
    /\ term = [cols |-> 16, rows |-> 7]
    /\ crashed = FALSE
    /\ last = Op("init", KEY_NONE, FALSE, <<>>)
    /\ pc = "install_signals"
    /\ handlers = <<>>
    /\ tty = "cooked"
    /\ orig_termios = "unset"
    /\ raw_mode_active = FALSE
    /\ g_resize_flag = 0
    /\ inbuf \in 0..MaxInput
    /\ loop_key = KEY_NONE
    /\ restores = 0
    /\ out = <<>>
    /\ unread = FALSE
    /\ unrendered = FALSE
    /\ on_tick \in BOOLEAN
    /\ isatty = TRUE
    /\ IoIdle

NextLoop ==
    \/ RInstallSignals
    \/ RTcgetattr
    \/ RTcsetattrRaw
    \/ RSetActive
    \/ RFirstRender
    \/ RWhile
    \/ RkTest
    \/ RkRead
    \/ RTick
    \/ RHandleKey
    \/ RCleanup
    \/ XTest
    \/ XTcsetattr
    \/ XClear
    \/ TypeKey

SpecLoop == InitLoop /\ [][NextLoop]_vars

----------------------------------------------------------------------------
(* detail::write_raw (POSIX): the loop around ::write.                     *)

MaxBytes == 3        \* bytes a string handed to write_raw may hold

Bytes == {"x", "y"}

RECURSIVE Strings(_)
Strings(n) ==
    IF n = 0 THEN {<<>>}
    ELSE Strings(n - 1) \cup {Append(t, b) : t \in {u \in Strings(n - 1) : Len(u) = n - 1},
                                             b \in Bytes}

(* What ::write returns with `remaining` bytes asked for: a count of bytes *)
(* taken, all or some of them, or -1 with errno set: EINTR when a handler  *)
(* ran before any byte was taken (no handler is installed with            *)
(* SA_RESTART), EIO when the terminal is gone.                             *)
WriteResults(remaining) ==
    {[n |-> k, errno |-> "none"] : k \in 1..remaining}
    \cup {[n |-> 0 - 1, errno |-> e] : e \in {"EINTR", "EIO"}}

(* One iteration of the loop, ::write having returned res.                 *)
write_raw_step(w, res) ==
    IF res.n <= 0
    THEN [w EXCEPT !.pc = "done", !.errno = res.errno]
    ELSE [w EXCEPT !.delivered = @ \o SubSeq(w.s, w.ptr + 1, w.ptr + res.n),
                   !.ptr = @ + res.n,
                   !.remaining = @ - res.n]

WStep(w) ==
    /\ wr' = w
    /\ UNCHANGED <<appvars, pc, handlers, ttyvars, resizevars, on_tick, isatty,
                   inbuf, loop_key, kb, fb, calc>>

(* write_raw(s) is called.                                                 *)
WCall ==
    /\ wr.pc \in {"idle", "done"}
    /\ \E str \in Strings(MaxBytes) :
          WStep([s |-> str, ptr |-> 0, remaining |-> Len(str), delivered |-> <<>>,
                 pc |-> "loop", errno |-> "none"])

(* while (remaining > 0) { n = ::write(...); if (n <= 0) break; ... }      *)
WWrite ==
    /\ wr.pc = "loop" /\ wr.remaining > 0
    /\ \E res \in WriteResults(wr.remaining) : WStep(write_raw_step(wr, res))

WReturn ==
    /\ wr.pc = "loop" /\ wr.remaining = 0
    /\ WStep([wr EXCEPT !.pc = "done"])

(* write_raw is called on an App as constructed.                           *)
InitWrite == InitList

NextWrite == WCall \/ WWrite \/ WReturn

SpecWrite == InitWrite /\ [][NextWrite]_vars

----------------------------------------------------------------------------
(* detail::read_key (POSIX) on the bytes of typed keys.  A byte is named   *)
(* by its character; kb.typed holds the keys typed, each as its bytes, all *)
(* of them waiting in the terminal's input queue.                          *)

MaxKeys == 2         \* keys typed ahead

DrainLimit == 32     \* int limit = 32 in read_key

Letters == {"A", "B", "C", "D", "H", "q"}

Digits == {"1", "3", "5"}

(* What keyboards send: q; the arrows ESC [ A and ESC [ C; Home as         *)
(* ESC [ H; Ctrl-Right as ESC [ 1 ; 5 C; Delete as ESC [ 3 ~; F1 on the    *)
(* Linux console as ESC [ [ A.                                             *)
TypedKeys ==
    {<<"q">>,
     <<"ESC", "[", "A">>,
     <<"ESC", "[", "C">>,
     <<"ESC", "[", "H">>,
     <<"ESC", "[", "1", ";", "5", "C">>,
     <<"ESC", "[", "3", "~">>,
     <<"ESC", "[", "[", "A">>}

RECURSIVE Flatten(_)
Flatten(ks) == IF ks = <<>> THEN <<>> ELSE Head(ks) \o Flatten(Tail(ks))

RECURSIVE KeySeqs(_)
KeySeqs(n) ==
    IF n = 0 THEN {<<>>}
    ELSE KeySeqs(n - 1) \cup {Append(t, k) : t \in {u \in KeySeqs(n - 1) : Len(u) = n - 1},
                                             k \in TypedKeys}

(* read(STDIN_FILENO, &c, 1) at offset pos of the queued bytes: <= 0 when  *)
(* none is left within the timeout.                                        *)
HasByte(bytes, pos) == pos < Len(bytes)

(* The drain loop: while (limit-- > 0 && read(&drain) > 0) with a break on *)
(* a letter; the offset it leaves.                                         *)
RECURSIVE drain(_, _, _)
drain(bytes, pos, limit) ==
    IF limit > 0 /\ HasByte(bytes, pos)
    THEN IF bytes[pos + 1] \in Letters
         THEN pos + 1
         ELSE drain(bytes, pos + 1, limit - 1)
    ELSE pos

(* read_key, the resize flag being clear: the key returned and the offset  *)
(* after the bytes it read.                                                *)
read_key(bytes, pos) ==
    IF ~HasByte(bytes, pos) THEN [key |-> KEY_NONE, pos |-> pos]
    ELSE LET c == bytes[pos + 1] IN
         CASE c = "CR" -> [key |-> KEY_ENTER, pos |-> pos + 1]
           [] c \in {"q", "Q"} -> [key |-> KEY_QUIT, pos |-> pos + 1]
           [] c = "ETX" -> [key |-> KEY_CTRL_C, pos |-> pos + 1]
           [] c = "SP" -> [key |-> KEY_SPACE, pos |-> pos + 1]
           [] c = "ESC" ->
                IF ~HasByte(bytes, pos + 1) THEN [key |-> KEY_OTHER, pos |-> pos + 1]
                ELSE IF ~HasByte(bytes, pos + 2) THEN [key |-> KEY_OTHER, pos |-> pos + 2]
                ELSE LET seq0 == bytes[pos + 2]
                         seq1 == bytes[pos + 3]
                     IN  IF seq0 = "["
                         THEN CASE seq1 = "A" -> [key |-> KEY_UP, pos |-> pos + 3]
                                [] seq1 = "B" -> [key |-> KEY_DOWN, pos |-> pos + 3]
                                [] seq1 = "C" -> [key |-> KEY_RIGHT, pos |-> pos + 3]
                                [] seq1 = "D" -> [key |-> KEY_LEFT, pos |-> pos + 3]
                                [] seq1 \in Digits ->
                                     [key |-> KEY_OTHER,
                                      pos |-> drain(bytes, pos + 3, DrainLimit)]
                                [] OTHER -> [key |-> KEY_OTHER, pos |-> pos + 3]
                         ELSE [key |-> KEY_OTHER, pos |-> pos + 3]
           [] OTHER -> [key |-> KEY_OTHER, pos |-> pos + 1]

KStep(k) ==
    /\ kb' = k
    /\ UNCHANGED <<appvars, pc, handlers, ttyvars, resizevars, on_tick, isatty,
                   inbuf, loop_key, wr, fb, calc>>

(* One call of read_key while bytes wait.                                  *)
KReadKey ==
    /\ HasByte(Flatten(kb.typed), kb.pos)
    /\ LET r == read_key(Flatten(kb.typed), kb.pos) IN
       KStep([kb EXCEPT !.start = kb.pos, !.pos = r.pos, !.keys = Append(@, r.key)])

(* The queue is read empty and other keys are typed.                       *)
KType ==
    /\ ~HasByte(Flatten(kb.typed), kb.pos)
    /\ \E ks \in KeySeqs(MaxKeys) \ {<<>>, kb.typed} :
          KStep([typed |-> ks, start |-> 0, pos |-> 0, keys |-> <<>>])

InitKey == InitList

NextKey == KReadKey \/ KType

SpecKey == InitKey /\ [][NextKey]_vars

----------------------------------------------------------------------------
(* App::render as the writes it makes.  The frame is the buffer render     *)
(* builds, by its parts: home cursor and reset, the tab bar, the borders   *)
(* and content rows, the bottom border, clear to end of screen.            *)

Frame ==
    <<"ESC[H", "ESC[0m", "tab bar", "content", "bottom border", "ESC[J">>

(* Mutant: render with no guard on the terminal size.                      *)
render_frame_unguarded(ts) == <<Frame>>

(* The arguments of the write_raw calls of one render, in order.           *)
render_frame(ts) == IF render_skipped(ts) THEN <<>> ELSE <<Frame>>

(* What the buffer holds, part by part, for tab_offset_ = to once the     *)
(* render has adjusted it.                                                 *)

(* The top border: the '< ' indicator, the visible tabs from to to         *)
(* last_visible with the active one highlighted, the ' >' indicator, and   *)
(* the dashes that fill the rest of the line.                              *)
RECURSIVE tabs_plain_len(_, _, _)
tabs_plain_len(pgs, i, last_visible) ==
    IF i > last_visible THEN 0
    ELSE pgs[i + 1].title_w + 2 + (IF i < last_visible THEN 1 ELSE 0)
         + tabs_plain_len(pgs, i + 1, last_visible)

tab_bar(pgs, at, to, W) ==
    LET tab_budget    == W - 3 - (IF to > 0 THEN 2 ELSE 0)
        last_visible  == compute_last_visible(pgs, to, tab_budget)
        tab_plain_len == (IF to > 0 THEN 2 ELSE 0)
                         + tabs_plain_len(pgs, to, last_visible)
                         + (IF last_visible + 1 < Len(pgs) THEN 2 ELSE 0)
    IN  [left_mark |-> to > 0, first |-> to, last_visible |-> last_visible,
         active |-> at, right_mark |-> last_visible + 1 < Len(pgs),
         remaining |-> W - 3 - tab_plain_len]

(* SelectableList::render: one line per item, with its cursor mark and,    *)
(* in a multi-select list, its checkbox.                                   *)
list_lines(l) ==
    [i \in 1..Len(l.items) |->
        [cursor |-> (i - 1 = l.cursor), kind |-> "item", idx |-> i - 1,
         box |-> IF ~l.multi_select THEN "none"
                 ELSE IF i - 1 < Len(l.selected) /\ l.selected[i] THEN "[x]"
                 ELSE "[ ]"]]

(* The content rows: row r shows line scroll + r of the static lines       *)
(* followed by the list's lines, or blanks past the last line.  (A         *)
(* negative scroll_ would index before static_lines.)                      *)
content_lines(p, H) ==
    LET list  == IF p.has_list THEN list_lines(p.list) ELSE <<>>
        total == p.lines + Len(list)
    IN  [r \in 1..content_rows([cols |-> 0, rows |-> H]) |->
            LET line_idx == p.scroll + r - 1 IN
            IF line_idx >= total
            THEN [cursor |-> FALSE, kind |-> "blank", idx |-> 0, box |-> "none"]
            ELSE IF line_idx < 0
            THEN [cursor |-> FALSE, kind |-> "out of bounds", idx |-> line_idx,
                  box |-> "none"]
            ELSE IF line_idx < p.lines
            THEN [cursor |-> FALSE, kind |-> "static", idx |-> line_idx, box |-> "none"]
            ELSE list[line_idx - p.lines + 1]]

(* Display widths of the three status hints.                               *)
MultiHintWidth  == 67
ListHintWidth   == 50
ScrollHintWidth == 34

RECURSIVE DecimalLen(_)
DecimalLen(n) ==
    IF n < 0 THEN 1 + DecimalLen(0 - n)
    ELSE IF n < 10 THEN 1 ELSE 1 + DecimalLen(n \div 10)

(* The bottom border: the status hint for the page's kind, the scroll      *)
(* position " a-b/total " when not every line fits, and the dashes on      *)
(* both sides.                                                             *)
bottom_border(p, ts) ==
    LET W     == ts.cols
        rows  == content_rows(ts)
        total == total_lines(p)
        status_plain_len ==
            IF p.has_list /\ p.list.multi_select THEN MultiHintWidth
            ELSE IF p.has_list THEN ListHintWidth ELSE ScrollHintWidth
        end   == Min(p.scroll + rows, total)
        scroll_hint == IF total > rows THEN <<p.scroll + 1, end, total>> ELSE <<>>
        scroll_plain_len ==
            IF total > rows
            THEN 4 + DecimalLen(p.scroll + 1) + DecimalLen(end) + DecimalLen(total)
            ELSE 0
        total_fixed == status_plain_len + scroll_plain_len
        left_dash   == Max(0, (W - 2 - total_fixed) \div 2)
    IN  [status_plain_len |-> status_plain_len, scroll_hint |-> scroll_hint,
         left_dash |-> left_dash,
         right_dash |-> Max(0, W - 2 - total_fixed - left_dash)]

frame(pgs, at, to, ts) ==
    [tabs   |-> tab_bar(pgs, at, to, ts.cols),
     rows   |-> content_lines(pgs[at + 1], ts.rows),
     bottom |-> bottom_border(pgs[at + 1], ts)]

(* Mutant: the frame built from tab_offset_ as it was on entry.            *)
render_buf_stale_offset(pgs, at, to, ts) ==
    IF render_skipped(ts) THEN <<>> ELSE <<frame(pgs, at, to, ts)>>

(* The buffers one render hands to write_raw: none on a terminal too       *)
(* small, else the one built after tab_offset_ is adjusted.                *)
render_buf(pgs, at, to, ts) ==
    IF render_skipped(ts) THEN <<>>
    ELSE <<frame(pgs, at, render(pgs, at, to, ts), ts)>>

(* render() is called, no write_raw being under way.                       *)
DRender ==
    /\ wr.pc \in {"idle", "done"}
    /\ LET w == render_frame(term) IN
       /\ tab_offset' = render(pages, active_tab, tab_offset, term)
       /\ wr' = IF w = <<>> THEN wr
                ELSE [s |-> w[Len(w)], ptr |-> 0, remaining |-> Len(w[Len(w)]),
                      delivered |-> <<>>, pc |-> "loop", errno |-> "none"]
       /\ last' = [op |-> "render", key |-> KEY_NONE, ret |-> FALSE, calls |-> <<>>,
                   n |-> Len(w), visible_rows |-> 0, rendered |-> w # <<>>]
    /\ calc' = [fn |-> "render",
                buf |-> render_buf(pages, active_tab, tab_offset, term)]
    /\ UNCHANGED <<pages, active_tab, running, term, crashed>>
    /\ UNCHANGED <<pc, handlers, ttyvars, resizevars, on_tick, isatty, inbuf,
                   loop_key, kb, fb>>

(* App::set_active_tab(index), called outside the loop.                    *)
DSetActiveTab ==
    /\ wr.pc \in {"idle", "done"}
    /\ \E index \in 0..MaxPages :
          /\ active_tab' = set_active_tab(pages, active_tab, index)
          /\ last' = [op |-> "set_active_tab", key |-> KEY_NONE, ret |-> FALSE,
                      calls |-> <<>>, n |-> index, visible_rows |-> 0,
                      rendered |-> FALSE]
    /\ UNCHANGED <<pages, tab_offset, running, term, crashed>>
    /\ UNCHANGED runvars

DResize == wr.pc \in {"idle", "done"} /\ ResizeTo(AppTermSizes)

InitRender ==
    /\ pages \in InitPages
    /\ active_tab = 0
    /\ tab_offset = 0
    /\ running = FALSE
    /\ term \in AppTermSizes
    /\ crashed = FALSE
    /\ last = Op("init", KEY_NONE, FALSE, <<>>)
    /\ RunIdle

NextRender == DRender \/ DSetActiveTab \/ DResize \/ WWrite \/ WReturn

SpecRender == InitRender /\ [][NextRender]_vars

----------------------------------------------------------------------------
(* FileBrowser.  A std::string is modelled as the sequence of its          *)
(* characters; Code gives each character's byte, by which std::string      *)
(* compares.  What opendir/readdir/stat report for a directory is a set of *)
(* entries, each a name and whether stat found a directory.                *)

MaxEntries == 3      \* entries readdir reports for a directory that is not empty
MaxPathLen == 3      \* characters of the longest path navigated to

Code(ch) ==
    CASE ch = "." -> 46 [] ch = "/" -> 47 [] ch = "B" -> 66 [] ch = "a" -> 97
      [] ch = "b" -> 98 [] ch = "h" -> 104 [] ch = "z" -> 122

(* Mutant: a comparison of names that ignores their case.                  *)
Lower(ch) == IF ch = "B" THEN "b" ELSE ch

RECURSIVE string_less_ignoring_case(_, _)
string_less_ignoring_case(a, b) ==
    IF b = <<>> THEN FALSE
    ELSE IF a = <<>> THEN TRUE
    ELSE IF Lower(a[1]) # Lower(b[1]) THEN Code(Lower(a[1])) < Code(Lower(b[1]))
    ELSE string_less_ignoring_case(Tail(a), Tail(b))

RECURSIVE string_less(_, _)
(* std::string operator<: the first differing byte decides, a proper       *)
(* prefix comes first.                                                     *)
string_less(a, b) ==
    IF b = <<>> THEN FALSE
    ELSE IF a = <<>> THEN TRUE
    ELSE IF Code(a[1]) # Code(b[1]) THEN Code(a[1]) < Code(b[1])
    ELSE string_less(Tail(a), Tail(b))

RECURSIVE strip_trailing_slashes(_)
(* while (size() > 1 && back() == '/') pop_back();                         *)
strip_trailing_slashes(path) ==
    IF Len(path) > 1 /\ path[Len(path)] = "/"
    THEN strip_trailing_slashes(SubSeq(path, 1, Len(path) - 1))
    ELSE path

npos == -1

(* path.rfind('/'): the 0-based position of the last '/', or npos.         *)
rfind_slash(path) ==
    LET at == {i \in 0..(Len(path) - 1) : path[i + 1] = "/"} IN
    IF at = {} THEN npos ELSE CHOOSE i \in at : \A j \in at : j <= i

parent_path(path) ==
    LET pos == rfind_slash(path) IN
    IF pos = npos THEN <<".">>
    ELSE IF pos = 0 THEN <<"/">>
    ELSE SubSeq(path, 1, pos)

(* The comparison list_directory sorts by.                                 *)
entry_less(a, b) ==
    IF a.is_dir # b.is_dir THEN a.is_dir /\ ~b.is_dir
    ELSE string_less(a.name, b.name)

RECURSIVE sort_entries(_)
(* std::sort under entry_less: the names of one directory differ, so the   *)
(* order is total and the sorted sequence is unique.                       *)
sort_entries(S) ==
    IF S = {} THEN <<>>
    ELSE LET m == CHOOSE e \in S : \A f \in S \ {e} : entry_less(e, f) IN
         <<m>> \o sort_entries(S \ {m})

(* list_directory (POSIX): entries whose name begins with '.' are skipped, *)
(* the rest is sorted.  A directory that cannot be opened reads as empty.  *)
list_directory(readdir) ==
    sort_entries({e \in readdir : e.name[1] # "."})

Entry(name, is_dir) == [name |-> name, is_dir |-> is_dir]

EntryUniverse ==
    {Entry(<<"b">>, TRUE), Entry(<<"z">>, TRUE), Entry(<<"a">>, FALSE),
     Entry(<<"B">>, FALSE), Entry(<<".", "h">>, TRUE)}

(* A directory is empty, or cannot be opened, or holds MaxEntries entries. *)
Readdirs == {S \in SUBSET EntryUniverse : Cardinality(S) \in {0, MaxEntries}}

Line(label, text) == [label |-> label, text |-> text]

RECURSIVE add_items(_, _)
add_items(l, items) ==
    IF items = <<>> THEN l
    ELSE add_items(add_item(l, Head(items), TRUE), Tail(items))

(* The body of navigate_to after page_->clear(): b is the browser, pg its  *)
(* page with the texts old of its static lines.  The result is the browser *)
(* and the page.  captures[i] is what the action of item i-1 captured.     *)
navigate_onto(b, pg, old, path, readdir) ==
    LET cp      == strip_trailing_slashes(path)
        lines   == <<Line("File Browser", <<>>), Line("Path: ", cp), Line("", <<>>)>>
                   \o (IF b.selected_file # <<>>
                       THEN <<Line("Selected: ", b.selected_file)>> ELSE <<>>)
        entries == list_directory(readdir)
        dirs    == SelectSeq(entries, LAMBDA e : e.is_dir)
        files   == SelectSeq(entries, LAMBDA e : ~e.is_dir)
        items   == <<<<".", ".", "/">>>>
                   \o [i \in 1..Len(dirs) |-> dirs[i].name \o <<"/">>]
                   \o [i \in 1..Len(files) |-> files[i].name]
        caps    == <<[kind |-> "parent", path |-> parent_path(cp)]>>
                   \o [i \in 1..Len(dirs) |->
                         [kind |-> "dir", path |-> cp \o <<"/">> \o dirs[i].name]]
                   \o [i \in 1..Len(files) |->
                         [kind |-> "file", path |-> cp \o <<"/">> \o files[i].name]]
    IN  [fb   |-> [b EXCEPT !.current_path = cp, !.lines = old \o lines,
                            !.captures = caps],
         page |-> set_list(add_lines(pg, Len(lines)), add_items(SelectableList, items))]

(* Mutant: navigate_to without page_->clear().                             *)
navigate_to_without_clear(b, pg, path, readdir) ==
    navigate_onto(b, pg, b.lines, path, readdir)

(* FileBrowser::navigate_to(path), the directory reading as readdir.       *)
navigate_to(b, pg, path, readdir) ==
    navigate_onto(b, clear(pg), <<>>, path, readdir)

(* What navigate_to calls on its page, in order: clear, add_line three or  *)
(* four times, set_list.                                                   *)
navigate_calls(b) ==
    <<"Page::clear", "Page::add_line", "Page::add_line", "Page::add_line">>
    \o (IF b.selected_file # <<>> THEN <<"Page::add_line">> ELSE <<>>)
    \o <<"Page::set_list">>

(* The calls that destroy or assign over the std::function objects a list  *)
(* holds in actions_: list_ = list in Page::set_list, actions_.clear() in  *)
(* SelectableList::clear_items.                                            *)
overwrites_actions(call) == call \in {"Page::set_list", "SelectableList::clear_items"}

(* An item's action ran from handle_key: what it called on the page that   *)
(* owns the list while it ran.                                             *)
ActionRun(calls) == [fn |-> "action", calls |-> calls]

(* Mutant: a file's action that keeps the first selection.                 *)
select_file_once(b, file_path) ==
    IF b.selected_file = <<>> THEN [b EXCEPT !.selected_file = file_path] ELSE b

(* selected_file_ = file_path;                                             *)
select_file(b, file_path) == [b EXCEPT !.selected_file = file_path]

(* FileBrowser(start_path), then on_file_selected(cb) when cb.             *)
FileBrowser(start_path, cb) ==
    [current_path |-> strip_trailing_slashes(start_path), selected_file |-> <<>>,
     on_file_selected |-> cb, page |-> 0, lines |-> <<>>, captures |-> <<>>]

StartPaths == {<<".">>, <<"/">>, <<"b", "/", "/">>}

(* What an on_file_selected callback may do to the App.                    *)
FbKinds == {"none", "rebuild"}

BrowserPage == pages[fb.page]

FbStep(op, key, calls, rendered) ==
    /\ last' = [op |-> op, key |-> key, ret |-> rendered, calls |-> calls,
                n |-> 0, visible_rows |-> 0, rendered |-> rendered]
    /\ UNCHANGED <<running, term, crashed>>
    /\ UNCHANGED <<pc, handlers, ttyvars, resizevars, on_tick, isatty, inbuf,
                   loop_key, wr, kb>>

(* FileBrowser::attach(app, tab_name): add_page, then the first            *)
(* navigation.                                                             *)
FAttach ==
    /\ fb.page = 0
    /\ Len(pages) < MaxPages
    /\ \E w \in AddedTitleWidths, readdir \in Readdirs :
          LET pgs == add_page(pages, w)
              nav == navigate_to([fb EXCEPT !.page = Len(pgs)], pgs[Len(pgs)],
                                 fb.current_path, readdir)
          IN  /\ pages' = [pgs EXCEPT ![Len(pgs)] = nav.page]
              /\ fb' = nav.fb
    /\ UNCHANGED <<active_tab, tab_offset, calc>>
    /\ FbStep("attach", KEY_NONE, <<>>, FALSE)

(* App::handle_key(KEY_ENTER) with the browser's page active, the cursor   *)
(* on "../" or on a directory: the action navigates, a render follows.     *)
FEnterDir ==
    /\ running /\ ~crashed
    /\ fb.page # 0 /\ active_tab + 1 = fb.page
    /\ LET cap == fb.captures[BrowserPage.list.cursor + 1] IN
       /\ cap.kind # "file"
       /\ Len(cap.path) <= MaxPathLen
       /\ \E readdir \in Readdirs :
             LET nav == navigate_to(fb, BrowserPage, cap.path, readdir) IN
             /\ pages' = [pages EXCEPT ![fb.page] = nav.page]
             /\ fb' = nav.fb
    /\ tab_offset' = render(pages', active_tab, tab_offset, term)
    /\ UNCHANGED active_tab
    /\ calc' = ActionRun(navigate_calls(fb))
    /\ FbStep("navigate", KEY_ENTER, <<>>, TRUE)

(* The same with the cursor on a file: the selection is recorded, the      *)
(* callback runs, the browser navigates to where it is, a render follows.  *)
FEnterFile ==
    /\ running /\ ~crashed
    /\ fb.page # 0 /\ active_tab + 1 = fb.page
    /\ LET cursor == BrowserPage.list.cursor
           cap    == fb.captures[cursor + 1]
           b      == select_file(fb, cap.path)
           st     == [pages |-> pages, active_tab |-> active_tab]
       IN
       /\ cap.kind = "file"
       /\ \E o \in IF b.on_file_selected THEN Outcomes(FbKinds, st, fb.page)
                   ELSE {[kind |-> "unset", st |-> st]},
             readdir \in Readdirs :
             LET nav == navigate_to(b, o.st.pages[fb.page], b.current_path, readdir) IN
             /\ pages' = [o.st.pages EXCEPT ![fb.page] = nav.page]
             /\ active_tab' = o.st.active_tab
             /\ fb' = nav.fb
             /\ tab_offset' = render(pages', active_tab', tab_offset, term)
             /\ calc' = ActionRun(navigate_calls(b))
             /\ FbStep("select", KEY_ENTER,
                       IF b.on_file_selected
                       THEN <<[fn |-> "on_file_selected", index |-> cursor,
                               item |-> b.selected_file, effect |-> o.kind]>>
                       ELSE <<>>,
                       TRUE)

(* The other keys, as App::handle_key dispatches them.                     *)
FKey ==
    /\ \E k \in {KEY_UP, KEY_DOWN, KEY_RIGHT} : AKeyOn(k)
    /\ UNCHANGED runvars

InitBrowser ==
    /\ pages = <<add_lines(Page(1), 1)>>
    /\ active_tab = 0
    /\ term = [cols |-> 16, rows |-> 11]
    /\ tab_offset = render(pages, active_tab, 0, term)
    /\ running = TRUE
    /\ crashed = FALSE
    /\ last = Op("init", KEY_NONE, FALSE, <<>>)
    /\ pc = "idle"
    /\ handlers = <<>>
    /\ tty = "cooked"
    /\ orig_termios = "unset"
    /\ raw_mode_active = FALSE
    /\ g_resize_flag = 0
    /\ inbuf = 0
    /\ loop_key = KEY_NONE
    /\ restores = 0
    /\ out = <<>>
    /\ unread = FALSE
    /\ unrendered = FALSE
    /\ on_tick = FALSE
    /\ isatty = TRUE
    /\ wr = WrIdle
    /\ kb = KbIdle
    /\ calc = CalcIdle
    /\ \E start_path \in StartPaths, cb \in BOOLEAN : fb = FileBrowser(start_path, cb)

NextBrowser == FAttach \/ FEnterDir \/ FEnterFile \/ FKey

SpecBrowser == InitBrowser /\ [][NextBrowser]_vars

----------------------------------------------------------------------------
(* Value-level functions (UTF-8 helpers, Table, ProgressBar, Style): calc  *)
(* holds the call made last, its arguments and its result; no App runs.    *)

CalcStep(c) ==
    /\ calc' = c
    /\ UNCHANGED <<appvars, pc, handlers, ttyvars, resizevars, on_tick, isatty,
                   inbuf, loop_key, wr, kb, fb>>

NoApp ==
    /\ pages = <<Page(1)>>
    /\ active_tab = 0
    /\ tab_offset = 0
    /\ running = FALSE
    /\ term = [cols |-> 80, rows |-> 24]
    /\ crashed = FALSE
    /\ last = Op("init", KEY_NONE, FALSE, <<>>)
    /\ pc = "idle"
    /\ handlers = <<>>
    /\ tty = "cooked"
    /\ orig_termios = "unset"
    /\ raw_mode_active = FALSE
    /\ g_resize_flag = 0
    /\ inbuf = 0
    /\ loop_key = KEY_NONE
    /\ restores = 0
    /\ out = <<>>
    /\ unread = FALSE
    /\ unrendered = FALSE
    /\ on_tick = FALSE
    /\ isatty = TRUE
    /\ wr = WrIdle
    /\ kb = KbIdle
    /\ fb = FbIdle

----------------------------------------------------------------------------
(* UTF-8 helpers.  A std::string is the sequence of its bytes, 0..255;     *)
(* positions are 0-based as in the code.                                   *)

MaxStr == 4          \* bytes of the longest string measured or truncated

(* 'a', a continuation byte, 0xC0, the leads 0xC3, 0xE2, 0xF0, and 0xFF.   *)
Utf8Bytes == {97, 169, 192, 195, 226, 240, 255}

Utf8Strings == UNION {[1..k -> Utf8Bytes] : k \in 0..MaxStr}

(* detail::utf8_char_len(s, i); (c & 0xE0) == 0xC0 is c \div 32 = 6, and   *)
(* so on.                                                                  *)
utf8_char_len(s, i) ==
    IF i >= Len(s) THEN 0
    ELSE LET c == s[i + 1]
             n == IF c < 128 THEN 1
                  ELSE IF c \div 32 = 6 THEN 2
                  ELSE IF c \div 16 = 14 THEN 3
                  ELSE IF c \div 8 = 30 THEN 4
                  ELSE 0
         IN  IF n = 0 \/ i + n > Len(s) THEN 0 ELSE n

RECURSIVE width_loop(_, _, _)
(* The loop of utf8_display_width from position i with width counted.      *)
width_loop(s, i, width) ==
    IF i < Len(s)
    THEN LET char_len == utf8_char_len(s, i) IN
         IF char_len = 0 THEN width_loop(s, i + 1, width)
         ELSE width_loop(s, i + char_len, width + 1)
    ELSE width

utf8_display_width(s) == width_loop(s, 0, 0)

RECURSIVE truncate_loop(_, _, _, _)
(* The loop of utf8_truncate: the position it stops at.                    *)
truncate_loop(s, i, width, max_width) ==
    IF i < Len(s) /\ width < max_width
    THEN LET char_len == utf8_char_len(s, i) IN
         IF char_len = 0 THEN truncate_loop(s, i + 1, width, max_width)
         ELSE truncate_loop(s, i + char_len, width + 1, max_width)
    ELSE i

(* Mutant: truncation to max_width bytes.                                  *)
utf8_truncate_bytes(s, max_width) == SubSeq(s, 1, Min(max_width, Len(s)))

utf8_truncate(s, max_width) == SubSeq(s, 1, truncate_loop(s, 0, 0, max_width))

(* utf8_display_width(s) is called.                                        *)
UWidth ==
    CalcStep([fn |-> "utf8_display_width", s |-> calc.s, n |-> 0,
              width |-> utf8_display_width(calc.s), str |-> <<>>])

(* utf8_truncate(s, max_width) is called.                                  *)
UTruncate ==
    \E max_width \in 0..(MaxStr + 1) :
       CalcStep([fn |-> "utf8_truncate", s |-> calc.s, n |-> max_width,
                 width |-> 0, str |-> utf8_truncate(calc.s, max_width)])

InitUtf8 ==
    /\ NoApp
    /\ \E s \in Utf8Strings :
          calc = [fn |-> "none", s |-> s, n |-> 0, width |-> 0, str |-> <<>>]

NextUtf8 == UWidth \/ UTruncate

SpecUtf8 == InitUtf8 /\ [][NextUtf8]_vars

----------------------------------------------------------------------------
(* Table.  A column is its name's display width and its configured width   *)
(* (0 = auto); a row is the display widths of its cells.                   *)

MaxCols == 3         \* columns of a table
MaxColWidth == 4     \* widest configured width, name or cell
MaxAvail == 12       \* largest available_width passed to render

Column(name_w, width) == [name_w |-> name_w, width |-> width]

RECURSIVE Sum(_)
Sum(ws) == IF ws = <<>> THEN 0 ELSE Head(ws) + Sum(Tail(ws))

RECURSIVE MaxOf(_)
MaxOf(ws) == IF ws = <<>> THEN 0 ELSE Max(Head(ws), MaxOf(Tail(ws)))

(* Table::render, the widths before scaling: a fixed width, or the widest  *)
(* of the name and the cells present in that column.                       *)
base_widths(columns, rows) ==
    [c \in 1..Len(columns) |->
        IF columns[c].width > 0 THEN columns[c].width
        ELSE Max(columns[c].name_w,
                 MaxOf([r \in 1..Len(rows) |->
                          IF c <= Len(rows[r]) THEN rows[r][c] ELSE 0]))]

(* Table::render, the scaling step.                                        *)
scale_widths(widths, available_width) ==
    IF available_width > 0
    THEN LET total      == Sum(widths)
             separators == Len(widths) - 1
             usable     == available_width - separators * 3
         IN  IF usable > 0 /\ total > usable
             THEN [c \in 1..Len(widths) |->
                     Max(1, (widths[c] * usable + total \div 2) \div total)]
             ELSE widths
    ELSE widths

TableColumns ==
    {Column(1, w) : w \in 1..MaxColWidth} \cup {Column(n, 0) : n \in 0..MaxColWidth}

Tables ==
    {[columns |-> cs, rows |-> rs] :
        cs \in UNION {[1..k -> TableColumns] : k \in 1..MaxCols},
        rs \in {<<>>, <<<<MaxColWidth>>>>}}

(* Table::render(available_width) on a table with columns.                 *)
TRender ==
    \E available_width \in 0..MaxAvail :
       CalcStep([fn |-> "Table::render", table |-> calc.table,
                 available_width |-> available_width,
                 widths |-> scale_widths(base_widths(calc.table.columns,
                                                     calc.table.rows),
                                         available_width)])

InitTable ==
    /\ NoApp
    /\ \E t \in Tables :
          calc = [fn |-> "none", table |-> t, available_width |-> 0, widths |-> <<>>]

NextTable == TRender

SpecTable == InitTable /\ [][NextTable]_vars

----------------------------------------------------------------------------
(* Table::render, the lines.  Here a column is its name (a byte string)    *)
(* and its configured width, a cell is a byte string, and a line is the    *)
(* sequence of its cells as rendered; " | " separates them.                *)

Ellipsis == <<226, 128, 166>>
Dash == <<226, 148, 128>>
Space == 32

RECURSIVE Repeat(_, _)
Repeat(s, n) == IF n <= 0 THEN <<>> ELSE s \o Repeat(s, n - 1)

(* Table::pad_or_truncate(s, width)                                        *)
pad_or_truncate(s, width) ==
    LET len == utf8_display_width(s) IN
    IF width <= 0 THEN <<>>
    ELSE IF len <= width THEN s \o Repeat(<<Space>>, width - len)
    ELSE IF width <= 1 THEN Ellipsis
    ELSE utf8_truncate(s, width - 1) \o Ellipsis

(* The widths render works with.                                           *)
table_widths(t, available_width) ==
    scale_widths(
        base_widths([c \in 1..Len(t.columns) |->
                        Column(utf8_display_width(t.columns[c].name), t.columns[c].width)],
                    [r \in 1..Len(t.rows) |->
                        [c \in 1..Len(t.rows[r]) |-> utf8_display_width(t.rows[r][c])]]),
        available_width)

(* Table::render(available_width): header, separator, one line per row.    *)
table_render(t, available_width) ==
    IF t.columns = <<>> THEN <<>>
    ELSE LET widths == table_widths(t, available_width)
             n      == Len(t.columns)
         IN  <<[c \in 1..n |-> pad_or_truncate(t.columns[c].name, widths[c])],
               [c \in 1..n |-> Repeat(Dash, widths[c])]>>
             \o [r \in 1..Len(t.rows) |->
                   [c \in 1..n |->
                      pad_or_truncate(IF c <= Len(t.rows[r]) THEN t.rows[r][c] ELSE <<>>,
                                      widths[c])]]

MaxCellCols == 2     \* columns of the tables whose lines are rendered

(* "", "aaa", e-acute, "a" and a lead byte 0xE2 with nothing after.        *)
CellStrings == {<<>>, <<97, 97, 97>>, <<195, 169>>, <<97, 226>>}

(* Configured column widths, 0 = auto.                                     *)
CellWidths == {0, 1, 2, 3}

CellTables ==
    {[columns |-> cs, rows |-> rs] :
        cs \in UNION {[1..k -> [name : CellStrings, width : CellWidths]] :
                      k \in 0..MaxCellCols},
        rs \in {<<>>} \cup {<<r>> : r \in UNION {[1..k -> CellStrings] : k \in 0..2}}}

(* Table::render(available_width), the lines kept.                         *)
TLines ==
    \E available_width \in {0, 4} :
       CalcStep([fn |-> "Table::render", table |-> calc.table,
                 available_width |-> available_width,
                 widths |-> IF calc.table.columns = <<>> THEN <<>>
                            ELSE table_widths(calc.table, available_width),
                 lines |-> table_render(calc.table, available_width)])

InitCells ==
    /\ NoApp
    /\ \E t \in CellTables :
          calc = [fn |-> "none", table |-> t, available_width |-> 0, widths |-> <<>>,
                  lines |-> <<>>]

NextCells == TLines

SpecCells == InitCells /\ [][NextCells]_vars

----------------------------------------------------------------------------
(* ProgressBar.  A double is a number of thousandths m, or NaN; every      *)
(* comparison with NaN is false.                                           *)

MaxBarWidth == 10    \* widest bar rendered

Num(m) == [nan |-> FALSE, m |-> m]
NaN == [nan |-> TRUE, m |-> 0]

less(a, b) == ~a.nan /\ ~b.nan /\ a.m < b.m

(* ProgressBar::set_value(v): the value stored.                            *)
set_value(v) ==
    IF less(v, Num(0)) THEN Num(0)
    ELSE IF less(Num(1000), v) THEN Num(1000)
    ELSE v

(* What static_cast<int> gives for a NaN: the conversion is undefined.     *)
IntMin == 0 - 2147483647 - 1
NaNToInt == {IntMin, 0}

(* ProgressBar::render(width): the sets of <<filled, empty, pct>> it may   *)
(* compute.  static_cast<int>(x + 0.5) truncates, x being >= 0; with a NaN *)
(* width - filled wraps around when filled is INT_MIN.                     *)
bar_render(value, width) ==
    LET w == IF width <= 0 THEN 1 ELSE width IN
    IF value.nan
    THEN {[filled |-> f, empty |-> IF f = IntMin THEN IntMin + w ELSE w - f,
           pct |-> p] : f \in NaNToInt, p \in NaNToInt}
    ELSE {[filled |-> (value.m * w + 500) \div 1000,
           empty  |-> w - (value.m * w + 500) \div 1000,
           pct    |-> (value.m * 100 + 500) \div 1000]}

BarInputs ==
    {Num(m) : m \in {-2000, -1, 0, 1, 50, 250, 445, 450, 500, 949, 950, 999, 1000,
                     1001, 3000}}
    \cup {NaN}

BarOp(fn, value, arg, width, r) ==
    [fn |-> fn, value |-> value, arg |-> arg, width |-> width,
     filled |-> r.filled, empty |-> r.empty, pct |-> r.pct]

NoBar == [filled |-> 0, empty |-> 0, pct |-> 0]

(* bar.set_value(v)                                                        *)
BSetValue ==
    \E v \in BarInputs :
       CalcStep(BarOp("set_value", set_value(v), v, 0, NoBar))

(* bar.render(width)                                                       *)
BRender ==
    \E width \in 0..MaxBarWidth :
       \E r \in bar_render(calc.value, width) :
          CalcStep(BarOp("render", calc.value, calc.arg, width, r))

(* ProgressBar(): value_ is 0.0.                                           *)
InitBar ==
    /\ NoApp
    /\ calc = BarOp("none", Num(0), Num(0), 0, NoBar)

NextBar == BSetValue \/ BRender

SpecBar == InitBar /\ [][NextBar]_vars

----------------------------------------------------------------------------
(* Style.  A colour is its enumerator's value; begin() is the sequence of  *)
(* the pieces it appends.                                                  *)

Default == 0
Colors == {Default, 31, 34, 90, 97}

Style ==
    [fg |-> Default, bg |-> Default, is_bold |-> FALSE, is_underline |-> FALSE,
     is_reverse |-> FALSE]

(* The mutators: each copies *this, sets one member of the copy and        *)
(* returns the copy.  The result is the returned Style and *this after the *)
(* call.                                                                   *)
bold(s)      == [ret |-> [s EXCEPT !.is_bold = TRUE], this |-> s]
underline(s) == [ret |-> [s EXCEPT !.is_underline = TRUE], this |-> s]
reversed(s)  == [ret |-> [s EXCEPT !.is_reverse = TRUE], this |-> s]
fg(s, c)     == [ret |-> [s EXCEPT !.fg = c], this |-> s]
bg(s, c)     == [ret |-> [s EXCEPT !.bg = c], this |-> s]

(* Mutant: begin() that emits the background before the foreground.        *)
begin_bg_first(s) ==
    <<"ESC[0">>
    \o (IF s.is_bold THEN <<";1">> ELSE <<>>)
    \o (IF s.is_underline THEN <<";4">> ELSE <<>>)
    \o (IF s.is_reverse THEN <<";7">> ELSE <<>>)
    \o (IF s.bg # Default THEN <<";", ToString(s.bg + 10)>> ELSE <<>>)
    \o (IF s.fg # Default THEN <<";", ToString(s.fg)>> ELSE <<>>)
    \o <<"m">>

(* Style::begin()                                                          *)
begin(s) ==
    <<"ESC[0">>
    \o (IF s.is_bold THEN <<";1">> ELSE <<>>)
    \o (IF s.is_underline THEN <<";4">> ELSE <<>>)
    \o (IF s.is_reverse THEN <<";7">> ELSE <<>>)
    \o (IF s.fg # Default THEN <<";", ToString(s.fg)>> ELSE <<>>)
    \o (IF s.bg # Default THEN <<";", ToString(s.bg + 10)>> ELSE <<>>)
    \o <<"m">>

StyleOp(fn, recv, r, seq) ==
    [fn |-> fn, recv |-> recv, this |-> r.this, style |-> r.ret, seq |-> seq]

(* style.bold(), .underline(), .reversed(), .fg(c), .bg(c) on the Style    *)
(* the previous call returned.                                             *)
SMutate ==
    \/ CalcStep(StyleOp("bold", calc.style, bold(calc.style), <<>>))
    \/ CalcStep(StyleOp("underline", calc.style, underline(calc.style), <<>>))
    \/ CalcStep(StyleOp("reversed", calc.style, reversed(calc.style), <<>>))
    \/ \E c \in Colors : CalcStep(StyleOp("fg", calc.style, fg(calc.style, c), <<>>))
    \/ \E c \in Colors : CalcStep(StyleOp("bg", calc.style, bg(calc.style, c), <<>>))

(* style.begin()                                                           *)
SBegin ==
    CalcStep(StyleOp("begin", calc.style, [ret |-> calc.style, this |-> calc.style],
                     begin(calc.style)))

(* Style()                                                                 *)
InitStyle ==
    /\ NoApp
    /\ calc = StyleOp("none", Style, [ret |-> Style, this |-> Style], <<>>)

NextStyle == SMutate \/ SBegin

SpecStyle == InitStyle /\ [][NextStyle]_vars

----------------------------------------------------------------------------
(* Accessors by index.  Here a page is its lines_ (the text of each static *)
(* line) and its scroll_.                                                  *)

(* SelectableList::get_item(index), index an int.                          *)
get_item(l, index) ==
    IF index < 0 \/ index >= Len(l.items) THEN "" ELSE l.items[index + 1]

(* SelectableList::selected_item()                                         *)
selected_item(l) == IF l.items = <<>> THEN "" ELSE l.items[l.cursor + 1]

(* Mutant: update_line that appends when the index is past the end.        *)
update_line_appending(p, index, text) ==
    IF index < Len(p.lines_)
    THEN [p EXCEPT !.lines_[index + 1] = text]
    ELSE [p EXCEPT !.lines_ = Append(@, text)]

(* Page::update_line(index, text), index a size_t.                         *)
update_line(p, index, text) ==
    IF index < Len(p.lines_) THEN [p EXCEPT !.lines_[index + 1] = text] ELSE p

Texts == {"", "x"}

RECURSIVE SeqsUpTo(_, _)
SeqsUpTo(S, n) ==
    IF n = 0 THEN {<<>>}
    ELSE SeqsUpTo(S, n - 1) \cup {Append(s, x) : s \in SeqsUpTo(S, n - 1), x \in S}

(* Pages of up to MaxLines lines, and lists of up to MaxItems items with   *)
(* the cursor on any of them.                                              *)
TextPages == {[scroll |-> sc, lines_ |-> ls] : ls \in SeqsUpTo(Texts, MaxLines), sc \in 0..1}

AccessLists ==
    UNION {{[BuildList(n, FALSE, FALSE) EXCEPT !.cursor = c] : c \in 0..Max(0, n - 1)} :
           n \in 0..MaxItems}

NoPage == [scroll |-> 0, lines_ |-> <<>>]

AccessOp(fn, l, p, index, str, after) ==
    [list |-> l, fn |-> fn, index |-> index, page |-> p, str |-> str, after |-> after]

GetItem ==
    \E l \in AccessLists, index \in (0 - 2)..(MaxItems + 1) :
        CalcStep(AccessOp("get_item", l, NoPage, index, get_item(l, index), NoPage))

SelectedItem ==
    \E l \in AccessLists :
        CalcStep(AccessOp("selected_item", l, NoPage, 0, selected_item(l), NoPage))

UpdateLine ==
    \E p \in TextPages, index \in 0..(MaxLines + 1), text \in Texts \cup {"y"} :
        CalcStep(AccessOp("update_line", SelectableList, p, index, text,
                          update_line(p, index, text)))

InitAccess ==
    /\ NoApp
    /\ calc = AccessOp("none", SelectableList, NoPage, 0, "", NoPage)

NextAccess == GetItem \/ SelectedItem \/ UpdateLine

SpecAccess == InitAccess /\ [][NextAccess]_vars

----------------------------------------------------------------------------
(* App::render on Apps of up to MaxTabs pages with short and longer        *)
(* titles, on terminals from 10 to 73 columns; set_active_tab and resizes  *)
(* in between bring about every active tab and every tab_offset_ an        *)
(* earlier render can leave.                                               *)

MaxTabs == 3         \* pages of the Apps rendered

TabTitleWidths == {1, 4}

TabTermSizes ==
    {[cols |-> 10, rows |-> 5], [cols |-> 12, rows |-> 5], [cols |-> 41, rows |-> 5],
     [cols |-> 56, rows |-> 7], [cols |-> 73, rows |-> 7]}

(* What the first page may hold: nothing; static lines and a list, more    *)
(* than a short terminal shows; a multi-select list.                       *)
PageVariants(w) ==
    {Page(w),
     set_list(add_lines(Page(w), MaxLines), BuildList(MaxItems, FALSE, FALSE)),
     set_list(Page(w), set_multi_select(BuildList(1, FALSE, FALSE), TRUE))}

(* An App whose first page is p and whose other pages have titles of the   *)
(* widths ws.                                                              *)
TabApp(p, ws) == <<p>> \o [i \in DOMAIN ws |-> Page(ws[i])]

TResize == wr.pc \in {"idle", "done"} /\ ResizeTo(TabTermSizes)

InitTabs ==
    /\ \E n \in 0..(MaxTabs - 1) :
       \E ws \in [1..n -> TabTitleWidths], w \in TabTitleWidths :
       \E p \in PageVariants(w) :
          pages = TabApp(p, ws)
    /\ active_tab = 0
    /\ tab_offset = 0
    /\ running = FALSE
    /\ term \in TabTermSizes
    /\ crashed = FALSE
    /\ last = Op("init", KEY_NONE, FALSE, <<>>)
    /\ RunIdle

NextTabs == DRender \/ DSetActiveTab \/ TResize \/ WWrite \/ WReturn

SpecTabs == InitTabs /\ [][NextTabs]_vars

----------------------------------------------------------------------------
(* Claims about SelectableList, checked under SpecList.                    *)

ListOk(l) ==
    /\ l.items # <<>> => 0 <= l.cursor /\ l.cursor < Len(l.items)
    /\ Len(l.selected) = Len(l.items)
    /\ Len(l.actions) = Len(l.items)

(* C1: after any sequence of add_item, clear_items, set_multi_select,      *)
(* clear_selection and handle_key (ENTER with callbacks that replace the   *)
(* page's list included), 0 <= cursor < items.length whenever items is     *)
(* non-empty, and selected and actions are as long as items.               *)
C1_ListInvariant == \A i \in 1..Len(pages) : ListOk(pages[i].list)

(* C1's case: ENTER at a cursor > 0 whose action replaced the page's list  *)
(* through Page::set_list, leaving a non-empty list.                       *)
C1_Witness ==
    /\ last.op = "handle_key" /\ last.key = KEY_ENTER
    /\ last.calls # <<>>
    /\ last.calls[1].fn = "action" /\ last.calls[1].effect = "set_list"
    /\ last.calls[1].index > 0
    /\ TheList.items # <<>>

IsEnterStep == last'.op = "handle_key" /\ last'.key = KEY_ENTER

CallsOf(calls, fn) == {i \in 1..Len(calls) : calls[i].fn = fn}

C8_Example ==
    LET l0 == BuildList(3, FALSE, FALSE)
        r1 == list_handle_key(l0, KEY_UP)
        r2 == list_handle_key(r1.list, KEY_DOWN)
        r3 == list_handle_key(r2.list, KEY_DOWN)
        r4 == list_handle_key(r3.list, KEY_DOWN)
    IN  /\ r1.list.cursor = 0 /\ ~r1.ret
        /\ r3.list.cursor = 2 /\ r2.ret /\ r3.ret
        /\ r4.list.cursor = 2 /\ ~r4.ret

C8_UpDown ==
    [][(last'.op = "handle_key" /\ Len(TheList.items) >= 1) =>
         LET l == TheList
             k == Len(l.items)
         IN  /\ C8_Example
             /\ last'.key = KEY_UP =>
                   /\ last'.ret <=> l.cursor > 0
                   /\ TheList'.cursor = IF l.cursor > 0 THEN l.cursor - 1 ELSE l.cursor
             /\ last'.key = KEY_DOWN =>
                   /\ last'.ret <=> l.cursor < k - 1
                   /\ TheList'.cursor = IF l.cursor < k - 1 THEN l.cursor + 1 ELSE l.cursor
             /\ last'.key \in {KEY_UP, KEY_DOWN} =>
                   TheList' = [l EXCEPT !.cursor = TheList'.cursor]]_vars

(* C8's case: DOWN at the last of 3 items reported unchanged and left the  *)
(* cursor at 2.                                                            *)
C8_Witness ==
    /\ last.op = "handle_key" /\ last.key = KEY_DOWN /\ ~last.ret
    /\ Len(TheList.items) = 3 /\ TheList.cursor = 2

IsSpaceStep == last'.op = "handle_key" /\ last'.key = KEY_SPACE

SelectedIndices(l) == {i \in 1..Len(l.items) : l.selected[i]}

Position(l, text) == CHOOSE i \in 1..Len(l.items) : l.items[i] = text

(* get_selected_items returns exactly the flagged items, each once, in     *)
(* the order of their insertion.                                           *)
SelectedInInsertionOrder(l) ==
    LET r == get_selected_items(l) IN
    /\ Len(r) = Cardinality(SelectedIndices(l))
    /\ {r[j] : j \in 1..Len(r)} = {l.items[i] : i \in SelectedIndices(l)}
    /\ \A j, k \in 1..Len(r) : j < k => Position(l, r[j]) < Position(l, r[k])

(* C9 as stated: in any multi-select list SPACE toggles selected[cursor]   *)
(* alone and reports changed; with multi-select off it changes nothing and *)
(* reports unchanged; get_selected_items is in insertion order.            *)
C9_Original ==
    [][/\ IsSpaceStep =>
            LET l == TheList IN
            IF l.multi_select
            THEN /\ last'.ret
                 /\ \A i \in 1..Len(l.selected) :
                      TheList'.selected[i] = (IF i = l.cursor + 1 THEN ~l.selected[i]
                                              ELSE l.selected[i])
                 /\ list_handle_key(TheList', KEY_SPACE).list = l
            ELSE ~last'.ret /\ TheList' = l
       /\ SelectedInInsertionOrder(TheList')]_vars

(* C9, amended: in a non-empty multi-select list SPACE toggles only        *)
(* selected[cursor] and reports changed, so a second SPACE at the same     *)
(* cursor restores the selection; with multi-select off, or on an empty    *)
(* list, SPACE changes nothing and reports unchanged; get_selected_items   *)
(* returns exactly the items whose flag is set, in insertion order,        *)
(* whatever the order they were toggled in.                                *)
C9_Space ==
    [][/\ IsSpaceStep =>
            LET l == TheList IN
            IF l.multi_select /\ l.items # <<>>
            THEN /\ last'.ret
                 /\ TheList' = [l EXCEPT !.selected[l.cursor + 1] = ~@]
                 /\ list_handle_key(TheList', KEY_SPACE).list = l
            ELSE ~last'.ret /\ TheList' = l
       /\ SelectedInInsertionOrder(TheList')]_vars

(* C9's case: three items, the third toggled before the first (the cursor  *)
(* is back on item 0 after the last SPACE): the result is first, third.    *)
C9_Witness ==
    /\ last.op = "handle_key" /\ last.key = KEY_SPACE /\ last.ret
    /\ Len(TheList.items) = 3 /\ TheList.cursor = 0
    /\ TheList.selected = <<TRUE, FALSE, TRUE>>
    /\ get_selected_items(TheList) = <<ItemText(0), ItemText(2)>>

----------------------------------------------------------------------------
(* Claims about Page, checked under SpecPage.                              *)

(* C2: after any sequence of Page operations, with any integer n and with  *)
(* the content size and the viewport height changing between operations,   *)
(* every scroll operation leaves                                           *)
(* 0 <= scroll <= max(0, total_lines - visible_rows).                      *)
C2_ScrollBounds ==
    last.op \in {"scroll_up", "scroll_down"} =>
        /\ 0 <= ThePage.scroll
        /\ ThePage.scroll <= Max(0, total_lines(ThePage) - last.visible_rows)

----------------------------------------------------------------------------
(* Claims about App::handle_key, checked under SpecApp.                    *)

DispatchedKeys ==
    {KEY_LEFT, KEY_RIGHT, KEY_UP, KEY_DOWN, KEY_ENTER, KEY_SPACE, KEY_OTHER}

IsDispatch == last'.op = "App::handle_key" /\ last'.key \in DispatchedKeys

(* C6 as stated: when the list reports changed neither active_tab nor the  *)
(* page scroll changes; otherwise LEFT/RIGHT change only active_tab and    *)
(* UP/DOWN change only the active page's scroll, by one line.              *)
C6_Original ==
    [][(IsDispatch /\ ~crashed') =>
         LET at == active_tab + 1 IN
         IF last'.ret
         THEN /\ active_tab' = active_tab
              /\ pages'[at].scroll = pages[at].scroll
         ELSE /\ last'.key \in {KEY_LEFT, KEY_RIGHT} => pages' = pages
              /\ last'.key \in {KEY_UP, KEY_DOWN} =>
                    /\ active_tab' = active_tab
                    /\ \E d \in {0 - 1, 0, 1} :
                          pages' = [pages EXCEPT ![at].scroll = @ + d]]_vars

HasEffect(calls, kind) == \E i \in 1..Len(calls) : calls[i].effect = kind

(* C6, amended: a key other than quit, Ctrl-C and resize is first offered  *)
(* to the active page's list.  When the list reports changed,              *)
(* App::handle_key itself touches neither active_tab nor any scroll: for   *)
(* UP/DOWN/SPACE only the active page's list changes, and after ENTER      *)
(* active_tab changes only if a callback called set_active_tab and a       *)
(* scroll only if a callback cleared a page.  When the list reports        *)
(* unchanged or the page has no list, LEFT/RIGHT change only active_tab    *)
(* (and tab_offset), by one unless at the end, UP sets only the active     *)
(* page's scroll to max(0, scroll - 1), DOWN sets only it to               *)
(* min(scroll + 1, max(0, total_lines - content_rows)), and any other key  *)
(* changes nothing.                                                        *)
C6_Dispatch ==
    [][(IsDispatch /\ ~crashed') =>
         LET at  == active_tab + 1
             key == last'.key
             p   == pages[at]
         IN  IF last'.ret
             THEN /\ p.has_list
                  /\ key # KEY_ENTER =>
                        /\ key \in {KEY_UP, KEY_DOWN, KEY_SPACE}
                        /\ active_tab' = active_tab
                        /\ pages' = [pages EXCEPT ![at].list = pages'[at].list]
                        /\ pages'[at].list # p.list
                  /\ key = KEY_ENTER =>
                        /\ active_tab' # active_tab =>
                              HasEffect(last'.calls, "set_active_tab")
                        /\ (\E i \in 1..Len(pages) : pages'[i].scroll # pages[i].scroll) =>
                              HasEffect(last'.calls, "rebuild")
             ELSE /\ last'.calls = <<>>
                  /\ key = KEY_LEFT =>
                        /\ pages' = pages
                        /\ active_tab' = Max(0, active_tab - 1)
                  /\ key = KEY_RIGHT =>
                        /\ pages' = pages
                        /\ active_tab' = Min(active_tab + 1, Len(pages) - 1)
                  /\ key = KEY_UP =>
                        /\ active_tab' = active_tab
                        /\ pages' = [pages EXCEPT ![at].scroll = Max(0, @ - 1)]
                  /\ key = KEY_DOWN =>
                        /\ active_tab' = active_tab
                        /\ pages' = [pages EXCEPT ![at].scroll =
                              Min(@ + 1, Max(0, total_lines(p) - content_rows(term)))]
                  /\ key \in {KEY_ENTER, KEY_SPACE, KEY_OTHER} =>
                        /\ pages' = pages
                        /\ active_tab' = active_tab
                        /\ tab_offset' = tab_offset]_vars

(* C6's case: DOWN on a page whose list has its cursor on the last item    *)
(* was not consumed by the list and scrolled the page instead.             *)
C6_Witness ==
    /\ last.op = "App::handle_key" /\ last.key = KEY_DOWN /\ ~last.ret
    /\ ActivePage.has_list /\ ActivePage.list.items # <<>>
    /\ ActivePage.list.cursor = Len(ActivePage.list.items) - 1
    /\ ActivePage.scroll > 0

(* C10: with at least one page, active_tab is always a valid page index;   *)
(* RIGHT on the last tab and LEFT on tab 0 are no-ops, any other           *)
(* LEFT/RIGHT moves the active tab by exactly one, and set_active_tab with *)
(* an index >= page_count is ignored.  With pages A, B and active tab 0:   *)
(* RIGHT gives 1, RIGHT again stays 1, LEFT LEFT gives 0.                  *)
C10_Example ==
    LET pgs == <<Page(1), Page(1)>>
        ts  == [cols |-> 80, rows |-> 24]
        r1  == app_navigate(pgs, 0, 0, ts, KEY_RIGHT)
        r2  == app_navigate(r1[1], r1[2], r1[3], ts, KEY_RIGHT)
        r3  == app_navigate(r2[1], r2[2], r2[3], ts, KEY_LEFT)
        r4  == app_navigate(r3[1], r3[2], r3[3], ts, KEY_LEFT)
    IN  r1[2] = 1 /\ r2[2] = 1 /\ r3[2] = 0 /\ r4[2] = 0

C10_ActiveTab ==
    [][/\ 0 <= active_tab' /\ active_tab' < Len(pages')
       /\ C10_Example
       /\ (last'.op = "App::handle_key" /\ last'.key = KEY_LEFT) =>
             IF active_tab = 0
             THEN UNCHANGED <<pages, active_tab, tab_offset, running>>
                  /\ ~last'.rendered
             ELSE active_tab' = active_tab - 1
       /\ (last'.op = "App::handle_key" /\ last'.key = KEY_RIGHT) =>
             IF active_tab = Len(pages) - 1
             THEN UNCHANGED <<pages, active_tab, tab_offset, running>>
                  /\ ~last'.rendered
             ELSE active_tab' = active_tab + 1
       /\ last'.op = "set_active_tab" =>
             active_tab' = IF last'.n >= Len(pages) THEN active_tab ELSE last'.n]_vars

(* C10's case: RIGHT on the last of two tabs changed nothing.              *)
C10_Witness ==
    /\ last.op = "App::handle_key" /\ last.key = KEY_RIGHT /\ ~last.rendered
    /\ Len(pages) = 2 /\ active_tab = 1

----------------------------------------------------------------------------
(* Claims about App::run and its signal handlers, checked under SpecRun    *)
(* and SpecRunFair.                                                        *)

RunOver == pc \in {"returned", "exited"}

(* C3: whenever SIGINT or SIGTERM is delivered after the handlers are      *)
(* installed, when run() returns or the process terminates the terminal    *)
(* mode is the mode in effect before raw mode was entered: the terminal is *)
(* never left in raw mode.                                                 *)
C3_TerminalRestored == RunOver => tty = "cooked"

(* C4: the saved terminal mode is restored at most once per raw-mode       *)
(* entry, also when a SIGINT/SIGTERM handler interrupts exit_raw_mode.     *)
C4_RestoredOnce == restores <= 1

LoopEnded ==
    pc \in {"show_cursor", "clear_screen", "move_cursor",
            "exit_raw_mode", "tcsetattr_orig", "clear_active",
            "returned", "exited"}

(* The SIGWINCH handler changes only the resize flag (the read() it        *)
(* interrupts returns), and the read_key that returns KEY_RESIZE clears    *)
(* the flag and consumes no input byte.                                    *)
ResizeSteps ==
    /\ (g_resize_flag = 0 /\ g_resize_flag' = 1) =>
          /\ UNCHANGED <<appvars, handlers, ttyvars, envvars, inbuf, loop_key>>
          /\ pc' = pc \/ (pc = "blocked" /\ pc' = "interrupted")
    /\ (pc = "clear_flag" /\ pc' = "dispatch") =>
          /\ loop_key' = KEY_RESIZE
          /\ g_resize_flag' = 0
          /\ inbuf' = inbuf

----------------------------------------------------------------------------
(* Claims about the event loop of App::run, checked under SpecLoop.        *)

CleanupOrder == <<"show_cursor", "clear_screen", "move_cursor(0, 0)", "exit_raw_mode">>

IsPrefix(a, b) == Len(a) <= Len(b) /\ a = SubSeq(b, 1, Len(a))

LoopPcs == {"while", "read_key", "clear_flag", "read", "blocked", "interrupted", "dispatch"}

(* C11: when read_key returns the quit key or Ctrl-C the loop stops: the   *)
(* key is not offered to a list, no further render, tick callback or list  *)
(* callback runs, and run() performs show cursor, clear screen, home       *)
(* cursor and exit_raw_mode in that order, once each, before returning.    *)
C11_QuitStops ==
    [][/\ (pc = "dispatch" /\ pc' = "while" /\ loop_key \in {KEY_QUIT, KEY_CTRL_C}) =>
             /\ running' = FALSE
             /\ UNCHANGED <<pages, active_tab, tab_offset>>
             /\ last'.op = "App::handle_key" /\ last'.key = loop_key
             /\ ~last'.ret /\ last'.calls = <<>> /\ ~last'.rendered
       /\ (pc \in LoopPcs /\ ~running) =>
             /\ UNCHANGED <<pages, active_tab, tab_offset, running, last>>
             /\ pc' \in {pc, "show_cursor"}
       /\ (pc \notin LoopPcs /\ pc' \in LoopPcs) => pc = "first_render"
       /\ IsPrefix(out', CleanupOrder)
       /\ pc' = "returned" => out' = CleanupOrder]_vars

(* C11's case: Ctrl-C was read on an App whose page has a list with items, *)
(* and run() has returned after restoring the terminal.                    *)
C11_Witness ==
    /\ pc = "returned"
    /\ last.op = "App::handle_key" /\ last.key = KEY_CTRL_C
    /\ pages[1].has_list /\ pages[1].list.items # <<>>
    /\ out = CleanupOrder /\ restores = 1 /\ tty = "cooked"

TickCalls(calls) == {i \in 1..Len(calls) : calls[i].fn = "on_tick"}

(* C12: on every read timeout the loop invokes the tick callback exactly   *)
(* once when one is set and then renders; a render follows every timeout;  *)
(* the tick callback is never invoked on an iteration that read a key.     *)
C12_TimeoutRenders ==
    [][(pc = "dispatch" /\ pc' = "while") =>
          IF loop_key = KEY_NONE
          THEN /\ Cardinality(TickCalls(last'.calls)) = (IF on_tick THEN 1 ELSE 0)
               /\ last'.rendered
          ELSE TickCalls(last'.calls) = {}]_vars

----------------------------------------------------------------------------
(* Claims about detail::write_raw, checked under SpecWrite.                *)

Unrecoverable == {"EIO"}

(* C13: write_raw(s) delivers every byte of s, in order and exactly once,  *)
(* for any pattern of partial writes; a partial or signal-interrupted      *)
(* write is retried, and the remaining bytes are dropped only when the     *)
(* descriptor reports an unrecoverable error.                              *)
C13_AllDelivered ==
    /\ IsPrefix(wr.delivered, wr.s)
    /\ wr.pc = "done" => (wr.delivered = wr.s \/ wr.errno \in Unrecoverable)

----------------------------------------------------------------------------
(* Claims about detail::read_key, checked under SpecKey.                   *)

(* The offsets of the typed bytes at which a key starts or the bytes end.  *)
Boundaries(ks) == {Len(Flatten(SubSeq(ks, 1, i))) : i \in 0..Len(ks)}

KeyStartingAt(ks, off) ==
    CHOOSE i \in 1..Len(ks) : Len(Flatten(SubSeq(ks, 1, i - 1))) = off

Arrows == {<<"ESC", "[", "A">>, <<"ESC", "[", "B">>, <<"ESC", "[", "C">>, <<"ESC", "[", "D">>}

IsOtherCsi(k) == Len(k) >= 3 /\ k[1] = "ESC" /\ k[2] = "[" /\ k \notin Arrows

(* C14: an escape sequence beginning ESC [ that is not an arrow key is     *)
(* consumed in full by the read_key call that started it, and that call    *)
(* consumes no byte of the following key: the next read_key starts at a    *)
(* key boundary.                                                           *)
C14_CsiConsumed ==
    (/\ kb.keys # <<>>
     /\ kb.start \in Boundaries(kb.typed) \ {Len(Flatten(kb.typed))}
     /\ IsOtherCsi(kb.typed[KeyStartingAt(kb.typed, kb.start)]))
    => kb.pos = kb.start + Len(kb.typed[KeyStartingAt(kb.typed, kb.start)])

----------------------------------------------------------------------------
(* Claims about App::render, checked under SpecRender.                     *)

(* Between two write_raw calls only a render leaves last.op = "render".    *)
IsRenderStep == wr.pc \in {"idle", "done"} /\ last'.op = "render"

(* C15: a render performs no write and changes no App state when the       *)
(* terminal is narrower than 10 columns or shorter than 5 rows, and        *)
(* otherwise performs exactly one write_raw call, which carries the whole  *)
(* frame and ends with the clear-to-end-of-screen sequence.                *)
C15_OneWrite ==
    [][IsRenderStep =>
         IF term.cols < 10 \/ term.rows < 5
         THEN /\ last'.n = 0
              /\ UNCHANGED <<pages, active_tab, tab_offset, running, wr>>
         ELSE /\ last'.n = 1
              /\ wr'.pc = "loop" /\ wr'.ptr = 0 /\ wr'.delivered = <<>>
              /\ wr'.s = Frame
              /\ wr'.s[Len(wr'.s)] = "ESC[J"
              /\ UNCHANGED <<pages, active_tab, running>>]_vars

(* C15's case: a frame was written in full, the terminal then shrank below *)
(* 10 x 5 and the render that followed wrote nothing.                      *)
C15_Witness ==
    /\ last.op = "render" /\ last.n = 0
    /\ term.cols < 10
    /\ wr.pc = "done" /\ wr.delivered = Frame

----------------------------------------------------------------------------
(* Claims about App::add_page, checked under SpecApp.                      *)

AddsPagesOnly(calls) ==
    /\ HasEffect(calls, "add_page")
    /\ \A i \in 1..Len(calls) : calls[i].effect \in {"add_page", "none"}

Extends(old, new) ==
    /\ Len(new) >= Len(old)
    /\ SubSeq(new, 1, Len(old)) = old
    /\ \A i \in (Len(old) + 1)..Len(new) :
          \E w \in TitleWidths \cup AddedTitleWidths : new[i] = Page(w)

(* C16: add_page appends the new page after all existing pages and leaves  *)
(* every existing page's position, title, lines, list and scroll, and the  *)
(* active tab, unchanged, also when a list action or callback calls it     *)
(* while the loop runs: an index obtained earlier denotes the same page.   *)
C16_AddPage ==
    [][/\ \A w \in TitleWidths :
             /\ Len(add_page(pages, w)) = Len(pages) + 1
             /\ Extends(pages, add_page(pages, w))
       /\ (/\ last'.op = "App::handle_key" /\ last'.key = KEY_ENTER
           /\ ~crashed'
           /\ AddsPagesOnly(last'.calls)) =>
             /\ Extends(pages, pages')
             /\ active_tab' = active_tab]_vars

(* C16's case: ENTER at a list cursor > 0 ran an action that added a       *)
(* second page behind the page holding the list.                           *)
C16_Witness ==
    /\ last.op = "App::handle_key" /\ last.key = KEY_ENTER
    /\ AddsPagesOnly(last.calls)
    /\ Len(pages) = 2 /\ pages[2] \in {Page(w) : w \in AddedTitleWidths}
    /\ active_tab = 0
    /\ pages[1].has_list /\ pages[1].list.cursor > 0

----------------------------------------------------------------------------
(* Claims about FileBrowser, checked under SpecBrowser.                    *)

(* The static lines navigate_to writes for browser b.                      *)
BrowserLines(b) ==
    <<Line("File Browser", <<>>), Line("Path: ", b.current_path), Line("", <<>>)>>
    \o (IF b.selected_file # <<>> THEN <<Line("Selected: ", b.selected_file)>>
        ELSE <<>>)

IsNavigation == last'.op \in {"navigate", "select"}

(* The entries of its directory that browser b shows, read back from what  *)
(* the actions of its list captured.                                       *)
ShownEntries(b) ==
    {Entry(SubSeq(b.captures[i].path, Len(b.current_path) + 2,
                  Len(b.captures[i].path)),
           b.captures[i].kind = "dir") : i \in 2..Len(b.captures)}

(* C17: a navigation after attach leaves the App's page count, the other   *)
(* pages, their order and the active tab as they were and stays on the     *)
(* browser's one page; that page then holds exactly the lines and the list *)
(* of the new directory, the cursor at 0; and navigating once more to the  *)
(* same path, the directory reading the same, changes nothing at all.      *)
C17_NavigateInPlace ==
    [][IsNavigation =>
         /\ fb'.page = fb.page
         /\ Len(pages') = Len(pages)
         /\ \A i \in (1..Len(pages)) \ {fb.page} : pages'[i] = pages[i]
         /\ active_tab' = active_tab
         /\ LET pg == pages'[fb.page] IN
            /\ fb'.lines = BrowserLines(fb')
            /\ pg.lines = Len(fb'.lines)
            /\ pg.has_list /\ pg.list.cursor = 0
            /\ Len(pg.list.items) = Len(fb'.captures)
            /\ \A path \in {fb'.current_path, fb'.current_path \o <<"/">>} :
                  LET again == navigate_to(fb', pg, path, ShownEntries(fb')) IN
                  again.fb = fb' /\ again.page = pg]_vars

(* C17's case: with a file selected the browser went down into a           *)
(* directory that holds entries, a second page standing beside its own.    *)
C17_Witness ==
    /\ last.op = "navigate"
    /\ Len(pages) = 2 /\ fb.page = 2
    /\ Len(fb.current_path) = 3
    /\ fb.selected_file # <<>>
    /\ Len(BrowserPage.list.items) = 3
    /\ BrowserPage.lines = 4

(* C18: ENTER on a file entry sets selected_file to current_path, '/' and  *)
(* the entry's name; on_file_selected, when set, is then called exactly    *)
(* once, with that path; the browser then navigates to where it is, after  *)
(* whatever the callback did to its page: current_path is as before and    *)
(* the page's fourth line is the "Selected: " line of the new selection.   *)
C18_SelectFile ==
    [][last'.op = "select" =>
         LET cursor == BrowserPage.list.cursor
             name   == BrowserPage.list.items[cursor + 1]
             pg     == pages'[fb.page]
         IN
         /\ fb.captures[cursor + 1].kind = "file"
         /\ fb'.selected_file = fb.current_path \o <<"/">> \o name
         /\ IF fb.on_file_selected
            THEN /\ Len(last'.calls) = 1
                 /\ last'.calls[1].fn = "on_file_selected"
                 /\ last'.calls[1].item = fb'.selected_file
            ELSE last'.calls = <<>>
         /\ fb'.current_path = fb.current_path
         /\ fb'.lines = BrowserLines(fb')
         /\ Len(fb'.lines) = 4
         /\ fb'.lines[4] = Line("Selected: ", fb'.selected_file)
         /\ pg.lines = 4 /\ pg.scroll = 0 /\ pg.list.cursor = 0]_vars

(* C18's case: a second file was selected below the start directory, and   *)
(* the callback, called with its path, had rewritten the browser's page.   *)
C18_Witness ==
    /\ last.op = "select"
    /\ last.calls # <<>>
    /\ last.calls[1].effect = "rebuild"
    /\ last.calls[1].index > 1
    /\ fb.selected_file = <<"b", "/", "b", "/", "a">>
    /\ fb.lines[4] = Line("Selected: ", <<"b", "/", "b", "/", "a">>)

(* a comes before b byte by byte: at the first position where they differ  *)
(* a has the smaller byte, or a has ended.                                 *)
BytewiseBefore(a, b) ==
    \E k \in 1..(Len(b)) :
       /\ \A i \in 1..(k - 1) : i <= Len(a) /\ a[i] = b[i]
       /\ k > Len(a) \/ (k - 1 < Len(a) /\ Code(a[k]) < Code(b[k]))

(* The name item i of a browser's list shows, and whether it shows it as a *)
(* directory (a trailing '/').                                             *)
ShownAsDir(item) == item[Len(item)] = "/"
ShownName(item) == IF ShownAsDir(item) THEN SubSeq(item, 1, Len(item) - 1) ELSE item

(* items, built with the captures caps, shows the entries: "../" first,    *)
(* then the directories, then the files, each group in ascending byte      *)
(* order, every entry once.                                                *)
ListsInOrder(items, caps, entries) ==
    /\ Len(items) = Len(caps)
    /\ items[1] = <<".", ".", "/">> /\ caps[1].kind = "parent"
    /\ Len(items) = 1 + Cardinality(entries)
    /\ \A i \in 2..Len(items) :
          /\ caps[i].kind = IF ShownAsDir(items[i]) THEN "dir" ELSE "file"
          /\ Entry(ShownName(items[i]), ShownAsDir(items[i])) \in entries
    /\ \A e \in entries :
          Cardinality({i \in 2..Len(items) : ShownName(items[i]) = e.name}) = 1
    /\ \A i, j \in 2..Len(items) :
          i < j => /\ ~(caps[i].kind = "file" /\ caps[j].kind = "dir")
                   /\ caps[i].kind = caps[j].kind
                        => BytewiseBefore(ShownName(items[i]), ShownName(items[j]))

Visible(readdir) == {e \in readdir : e.name[1] # "."}

ExampleListing == {Entry(<<"b">>, TRUE), Entry(<<"a">>, FALSE), Entry(<<"z">>, TRUE)}

ExampleShown == <<<<".", ".", "/">>, <<"b", "/">>, <<"z", "/">>, <<"a">>>>

Listed(readdir) == navigate_to(fb, BrowserPage, fb.current_path, readdir)

(* C19 as stated: the list shows "../", then every subdirectory the        *)
(* directory holds, then every file it holds.                              *)
C19_Original ==
    fb.page # 0 =>
       \A readdir \in Readdirs :
          ListsInOrder(Listed(readdir).page.list.items, Listed(readdir).fb.captures,
                       readdir)

(* C19, amended: the list shows "../" at index 0, then one entry for each  *)
(* directory whose name does not begin with '.', in ascending byte order   *)
(* of the names, then one entry for each such file, in ascending byte      *)
(* order; no directory follows a file; b (dir), a (file), z (dir) is shown *)
(* as b/, z/, a.                                                           *)
C19_ListOrder ==
    fb.page # 0 =>
       /\ ListsInOrder(BrowserPage.list.items, fb.captures, ShownEntries(fb))
       /\ \A readdir \in Readdirs :
             ListsInOrder(Listed(readdir).page.list.items, Listed(readdir).fb.captures,
                          Visible(readdir))
       /\ Listed(ExampleListing).page.list.items = ExampleShown

(* C19's case: the browser shows a directory that holds b (dir), a (file)  *)
(* and z (dir).                                                            *)
C19_Witness ==
    /\ fb.page # 0
    /\ last.op = "navigate"
    /\ ShownEntries(fb) = ExampleListing
    /\ BrowserPage.list.items = ExampleShown

----------------------------------------------------------------------------
(* Page::scroll_down and Page::scroll_up, checked under SpecPage.          *)

IsScrollDown == last'.op = "scroll_down" /\ last'.n >= 0
IsScrollUp == last'.op = "scroll_up" /\ last'.n >= 0

(* The example of a page with ten lines and four visible rows.             *)
TenLines == add_lines(Page(1), 10)
ScrollExample ==
    /\ scroll_down(TenLines, 100, 4).scroll = 6
    /\ scroll_up(scroll_down(TenLines, 100, 4), 100).scroll = 0

(* C20 as stated: for n >= 0 and every visible_rows >= 0, scroll_down sets *)
(* scroll to min(scroll + n, max(0, total_lines - visible_rows)).          *)
C20_Original ==
    [][IsScrollDown =>
         pages'[1].scroll =
            Min(ThePage.scroll + last'.n,
                Max(0, total_lines(ThePage) - last'.visible_rows))]_vars

(* C20, amended: for n >= 0, scroll_down(n, visible_rows) sets scroll to   *)
(* min(scroll + n, max(0, total_lines - visible_rows)) when visible_rows   *)
(* is positive and to min(scroll + n, 0) when it is 0; scroll_up(n) sets   *)
(* scroll to max(0, scroll - n); with ten lines and four visible rows      *)
(* scroll_down(100) gives 6 and scroll_up(100) from there gives 0.         *)
C20_ScrollClamps ==
    [][/\ IsScrollDown =>
            pages'[1].scroll =
               IF last'.visible_rows > 0
               THEN Min(ThePage.scroll + last'.n,
                        Max(0, total_lines(ThePage) - last'.visible_rows))
               ELSE Min(ThePage.scroll + last'.n, 0)
       /\ IsScrollUp => pages'[1].scroll = Max(0, ThePage.scroll - last'.n)
       /\ (IsScrollDown \/ IsScrollUp) =>
             /\ pages'[1] = [ThePage EXCEPT !.scroll = pages'[1].scroll]
             /\ ScrollExample]_vars

(* C20's case: on a page longer than the viewport scroll_down(2, 1) was    *)
(* clamped at total_lines - 1.                                             *)
C20_Witness ==
    /\ last.op = "scroll_down"
    /\ last.n = 2 /\ last.visible_rows = 1
    /\ total_lines(ThePage) > 2
    /\ ThePage.scroll = total_lines(ThePage) - 1

(* C21: Page::clear leaves no static line and scroll 0, and leaves the     *)
(* list (items, cursor, selection flags, callbacks) and has_list as they   *)
(* were; total_lines() is then the list's item count, or 0 with no list.   *)
C21_ClearKeepsList ==
    [][last'.op = "clear" =>
         /\ pages'[1].lines = 0
         /\ pages'[1].scroll = 0
         /\ pages'[1].list = ThePage.list
         /\ pages'[1].has_list = ThePage.has_list
         /\ pages'[1].title_w = ThePage.title_w
         /\ total_lines(pages'[1]) =
               IF ThePage.has_list THEN Len(ThePage.list.items) ELSE 0]_vars

(* C21's case: a page with a list of two items and a callback was cleared. *)
C21_Witness ==
    /\ last.op = "clear"
    /\ ThePage.has_list /\ Len(ThePage.list.items) = 2
    /\ ThePage.list.on_select
    /\ total_lines(ThePage) = 2

----------------------------------------------------------------------------
(* The SIGINT/SIGTERM handler, checked under SpecRun.                      *)

(* While a handler frame stands, run() does not go on: no key is handled,  *)
(* no tick or list callback runs, nothing is rendered, and no handler      *)
(* returns.  (A read() the signal interrupted may be marked interrupted.)  *)
HandlerFreezesLoop ==
    InHandler =>
       /\ UNCHANGED <<appvars, loop_key>>
       /\ pc' \in {pc, "exited", "interrupted"}
       /\ unrendered => unrendered'
       /\ pc' # "exited" => Len(handlers') >= Len(handlers)

(* The process ends from a handler only past the handler's write and       *)
(* exit_raw_mode, and with the terminal out of raw mode.                   *)
HandlerRestores ==
    (InHandler /\ pc' = "exited") =>
       /\ Here = "_Exit"
       /\ tty' = "cooked"

(* C22: once SIGINT or SIGTERM is delivered during run(), the handler      *)
(* writes its sequence, restores the terminal mode and terminates the      *)
(* process without returning to the loop: no render, tick callback or list *)
(* callback runs after the signal.                                         *)
C22_HandlerTerminates == [][HandlerFreezesLoop /\ HandlerRestores]_vars

----------------------------------------------------------------------------
(* UTF-8 helpers, checked under SpecUtf8.                                  *)

IsContinuation(c) == 128 <= c /\ c <= 191

(* The bytes from position i (0-based) on start with one well-formed       *)
(* UTF-8 sequence of k bytes (RFC 3629).                                   *)
WellFormedAt(s, i, k) ==
    /\ i + k <= Len(s)
    /\ LET c == s[i + 1] IN
       /\ \/ k = 1 /\ c < 128
          \/ k = 2 /\ 194 <= c /\ c <= 223
          \/ k = 3 /\ 224 <= c /\ c <= 239
          \/ k = 4 /\ 240 <= c /\ c <= 244
       /\ \A j \in 1..(k - 1) : IsContinuation(s[i + 1 + j])
       /\ k > 1 => /\ c = 224 => s[i + 2] >= 160
                   /\ c = 237 => s[i + 2] <= 159
                   /\ c = 240 => s[i + 2] >= 144
                   /\ c = 244 => s[i + 2] <= 143

SeqLen(s, i) ==
    IF \E k \in 1..4 : WellFormedAt(s, i, k)
    THEN CHOOSE k \in 1..4 : WellFormedAt(s, i, k) ELSE 0

RECURSIVE ValidFrom(_, _)
ValidFrom(s, i) ==
    \/ i = Len(s)
    \/ i < Len(s) /\ SeqLen(s, i) > 0 /\ ValidFrom(s, i + SeqLen(s, i))

IsValidUtf8(s) == ValidFrom(s, 0)

(* The codepoints of a valid string: its bytes that are no continuation.   *)
Codepoints(s) == Cardinality({i \in 1..Len(s) : ~IsContinuation(s[i])})

(* C23: for a valid UTF-8 string s and n >= 0, truncate(s, n) is a byte    *)
(* prefix of s that ends on a codepoint boundary, its display width is     *)
(* min(n, display_width(s)), and truncating it again with n returns it.    *)
C23_TruncateWidth ==
    (calc.fn = "utf8_truncate" /\ IsValidUtf8(calc.s)) =>
       /\ IsPrefix(calc.str, calc.s)
       /\ IsValidUtf8(calc.str)
       /\ Codepoints(calc.str) = Min(calc.n, Codepoints(calc.s))
       /\ utf8_display_width(calc.str) = Codepoints(calc.str)
       /\ utf8_display_width(calc.s) = Codepoints(calc.s)
       /\ utf8_truncate(calc.str, calc.n) = calc.str

(* C23's case: a valid string of a two-byte character and two ASCII        *)
(* characters was cut to two columns, three bytes.                         *)
C23_Witness ==
    /\ calc.fn = "utf8_truncate"
    /\ calc.s = <<195, 169, 97, 97>>
    /\ calc.n = 2
    /\ calc.str = <<195, 169, 97>>

RECURSIVE RecoveredWidth(_, _)
(* The width under the stated recovery: a well-formed sequence counts one  *)
(* column, anything else is passed one byte at a time with no width.       *)
RecoveredWidth(s, i) ==
    IF i >= Len(s) THEN 0
    ELSE IF SeqLen(s, i) > 0 THEN 1 + RecoveredWidth(s, i + SeqLen(s, i))
    ELSE RecoveredWidth(s, i + 1)

(* C24: for any byte string display_width and truncate pass an invalid     *)
(* sequence (a stray continuation byte, an invalid lead byte, a lead byte  *)
(* without its continuation bytes) one byte at a time with no width, so    *)
(* every valid codepoint after it still counts one column.                 *)
C24_Recovery ==
    /\ calc.fn = "utf8_display_width" => calc.width = RecoveredWidth(calc.s, 0)
    /\ calc.fn = "utf8_truncate" =>
          RecoveredWidth(calc.str, 0) = Min(calc.n, RecoveredWidth(calc.s, 0))

----------------------------------------------------------------------------
(* Table::render, checked under SpecTable.                                 *)

BaseWidths == base_widths(calc.table.columns, calc.table.rows)

Usable == calc.available_width - 3 * (Len(calc.table.columns) - 1)

(* C25: when available_width > 0 and the base widths sum to more than      *)
(* usable = available_width - 3 * (columns - 1), every scaled width is at  *)
(* least 1 and the scaled widths sum to at most usable, so that a line is  *)
(* no wider than available_width.                                          *)
C25_ScaledFits ==
    (/\ calc.fn = "Table::render"
     /\ calc.available_width > 0
     /\ Sum(BaseWidths) > Usable) =>
       /\ \A c \in 1..Len(calc.widths) : calc.widths[c] >= 1
       /\ Sum(calc.widths) <= Usable
       /\ Sum(calc.widths) + 3 * (Len(calc.widths) - 1) <= calc.available_width

----------------------------------------------------------------------------
(* ProgressBar, checked under SpecBar.                                     *)

(* x thousandths rounded half up to a whole number, x >= 0.                *)
RoundHalfUp(x) == CHOOSE k \in 0..(x \div 1000 + 1) : 2 * k * 1000 - 1000 <= 2 * x
                                                      /\ 2 * x < 2 * k * 1000 + 1000

(* C26: after any set_value calls the stored value lies in [0, 1];         *)
(* render(w), w >= 1, computes filled = round-half-up(value * w) and       *)
(* empty = w - filled with 0 <= filled <= w: value 0 gives w empty and 0%, *)
(* value 1 gives w filled and 100%, 0.445 at width 10 gives 4 and 45%.     *)
C26_BarClamped ==
    /\ ~calc.value.nan /\ 0 <= calc.value.m /\ calc.value.m <= 1000
    /\ (calc.fn = "render" /\ calc.width >= 1) =>
          /\ calc.filled = RoundHalfUp(calc.value.m * calc.width)
          /\ calc.empty = calc.width - calc.filled
          /\ 0 <= calc.filled /\ calc.filled <= calc.width
          /\ calc.value.m = 0 => calc.empty = calc.width /\ calc.pct = 0
          /\ calc.value.m = 1000 => calc.filled = calc.width /\ calc.pct = 100
          /\ (calc.value.m = 445 /\ calc.width = 10) =>
                calc.filled = 4 /\ calc.pct = 45

----------------------------------------------------------------------------
(* Style, checked under SpecStyle.                                         *)

(* The pieces of an SGR sequence in their fixed order, each with whether   *)
(* style s has it.                                                         *)
SgrPieces(s) ==
    <<[on |-> TRUE, text |-> <<"ESC[0">>],
      [on |-> s.is_bold, text |-> <<";1">>],
      [on |-> s.is_underline, text |-> <<";4">>],
      [on |-> s.is_reverse, text |-> <<";7">>],
      [on |-> s.fg # 0, text |-> <<";", ToString(s.fg)>>],
      [on |-> s.bg # 0, text |-> <<";", ToString(s.bg + 10)>>],
      [on |-> TRUE, text |-> <<"m">>]>>

RECURSIVE Concat(_)
Concat(ps) == IF ps = <<>> THEN <<>> ELSE Head(ps).text \o Concat(Tail(ps))

ExpectedSgr(s) == Concat(SelectSeq(SgrPieces(s), LAMBDA p : p.on))

Changed(a, b) ==
    {f \in {"fg", "bg", "is_bold", "is_underline", "is_reverse"} : a[f] # b[f]}

(* C27: begin() is a function of the attribute values alone: ESC[0, then   *)
(* ;1, ;4, ;7, ;fg, ;bg+10 in that order for exactly the attributes that   *)
(* are not at their default, then m; and a mutator returns a Style that    *)
(* differs from its receiver in its own attribute at most and leaves the   *)
(* receiver as it was.                                                     *)
C27_StyleBegin ==
    /\ calc.this = calc.recv
    /\ calc.fn = "begin" => calc.seq = ExpectedSgr(calc.style)
    /\ calc.fn = "bold" => calc.style.is_bold /\ Changed(calc.style, calc.recv) \subseteq {"is_bold"}
    /\ calc.fn = "underline" =>
          calc.style.is_underline /\ Changed(calc.style, calc.recv) \subseteq {"is_underline"}
    /\ calc.fn = "reversed" =>
          calc.style.is_reverse /\ Changed(calc.style, calc.recv) \subseteq {"is_reverse"}
    /\ calc.fn = "fg" => Changed(calc.style, calc.recv) \subseteq {"fg"}
    /\ calc.fn = "bg" => Changed(calc.style, calc.recv) \subseteq {"bg"}

(* C27's case: begin() of a bold, reversed Style with a red foreground and *)
(* a bright black background.                                              *)
C27_Witness ==
    /\ calc.fn = "begin"
    /\ calc.style = [fg |-> 31, bg |-> 90, is_bold |-> TRUE, is_underline |-> FALSE,
                     is_reverse |-> TRUE]
    /\ calc.seq = <<"ESC[0", ";1", ";7", ";", "31", ";", "100", "m">>

----------------------------------------------------------------------------
(* Raw mode without a terminal, checked under SpecRun.                     *)

(* C28: when standard input is not a terminal, tcgetattr fails, so the     *)
(* terminal mode and the saved mode stay as they were, raw mode is never   *)
(* active, and no exit_raw_mode, whether run() or a signal handler calls   *)
(* it, applies a mode.                                                     *)
C28_NoTerminal ==
    ~isatty =>
        /\ tty = "cooked"
        /\ orig_termios = "unset"
        /\ ~raw_mode_active
        /\ restores = 0
        /\ Here # "tcsetattr_orig"

(* C28's case: run() has returned through exit_raw_mode without a          *)
(* terminal.                                                               *)
C28_Witness ==
    ~isatty /\ pc = "returned" /\ out # <<>> /\ out[Len(out)] = "exit_raw_mode"

----------------------------------------------------------------------------
(* Accessors by index, checked under SpecAccess.                           *)

(* C29: get_item with an index below 0 or at or past the size, and         *)
(* selected_item on an empty list, return the empty string; update_line    *)
(* with an index at or past the number of lines leaves the page as it was. *)
C29_OutOfRange ==
    /\ calc.fn = "get_item" /\ (calc.index < 0 \/ calc.index >= Len(calc.list.items))
          => calc.str = ""
    /\ calc.fn = "selected_item" /\ Len(calc.list.items) = 0 => calc.str = ""
    /\ calc.fn = "update_line" /\ calc.index >= Len(calc.page.lines_)
          => calc.after = calc.page

(* C29's case: update_line on a page of two lines with index 2.            *)
C29_Witness ==
    /\ calc.fn = "update_line"
    /\ Len(calc.page.lines_) = 2
    /\ calc.index = 2
    /\ calc.str = "y"
    /\ calc.after = calc.page

----------------------------------------------------------------------------
(* Render, checked under SpecRender.                                       *)

(* A call of render(): no write_raw is under way and the step records a    *)
(* render.                                                                 *)
IsRender == wr.pc \in {"idle", "done"} /\ last'.op = "render"

(* C30: a render leaves the pages, the active tab and running_ as they     *)
(* were, and a render that follows a render, nothing but the writes of the *)
(* first in between, builds the same buffer and leaves tab_offset_ alone.  *)
C30_RenderRepeats ==
    [][IsRender =>
          /\ pages' = pages /\ active_tab' = active_tab /\ running' = running
          /\ last.op = "render" => calc'.buf = calc.buf /\ tab_offset' = tab_offset]_vars

(* C30's case: a render has written a frame whose tab bar starts at the    *)
(* second tab, and the next render may follow.                             *)
C30_Witness ==
    /\ last.op = "render"
    /\ calc.fn = "render"
    /\ Len(calc.buf) = 1
    /\ calc.buf[1].tabs.first = 1
    /\ tab_offset = 1
    /\ wr.pc = "done"

----------------------------------------------------------------------------
(* The frame of any App, checked under SpecTabs.                           *)

TheTabs == calc.buf[1].tabs

Rendered == calc.fn = "render" /\ last.op = "render" /\ Len(calc.buf) = 1

(* C31: after a render, tab_offset <= active_tab <= last visible tab <     *)
(* page count, and the tab bar drawn starts at that tab_offset.            *)
C31_ActiveTabVisible ==
    Rendered =>
        /\ TheTabs.first = tab_offset
        /\ TheTabs.active = active_tab
        /\ tab_offset <= active_tab
        /\ active_tab <= TheTabs.last_visible
        /\ TheTabs.last_visible < Len(pages)

(* C31's case: three tabs on a terminal of 10 columns, the third active:   *)
(* the loop has advanced tab_offset to 2.                                  *)
C31_Witness ==
    /\ Rendered
    /\ Len(pages) = 3 /\ active_tab = 2 /\ term.cols = 10
    /\ tab_offset = 2
    /\ TheTabs.last_visible = 2

(* Columns of the top border line: corner and dash, the tab bar, the fill  *)
(* dashes (none when remaining <= 0), corner.                              *)
TopBorderWidth == 2 + (term.cols - 3 - TheTabs.remaining) + Max(0, TheTabs.remaining) + 1

(* C32: the tab bar of a rendered frame takes at most W - 3 columns, and   *)
(* the top border line is exactly W columns wide.                          *)
C32_TopBorderFits ==
    Rendered => TheTabs.remaining >= 0 /\ TopBorderWidth = term.cols

TheBottom == calc.buf[1].bottom

(* Columns of the scroll indicator " a-b/total ", none when it is absent.  *)
IndicatorWidth(hint) ==
    IF hint = <<>> THEN 0
    ELSE 1 + DecimalLen(hint[1]) + 1 + DecimalLen(hint[2]) + 1 + DecimalLen(hint[3]) + 1

Rem == term.cols - 2 - TheBottom.status_plain_len - IndicatorWidth(TheBottom.scroll_hint)

BottomBorderWidth ==
    1 + TheBottom.left_dash + TheBottom.status_plain_len + TheBottom.right_dash
      + IndicatorWidth(TheBottom.scroll_hint) + 1

(* C33: the bottom border of a rendered frame has floor(rem / 2) dashes on *)
(* the left and rem minus that on the right, and is exactly W columns      *)
(* wide.                                                                   *)
C33_BottomBorderFits ==
    Rendered =>
        /\ TheBottom.left_dash = Rem \div 2
        /\ TheBottom.right_dash = Rem - TheBottom.left_dash
        /\ BottomBorderWidth = term.cols

(* Where the line has room, the same holds.                                *)
C33_FitsWithRoom == Rendered /\ Rem >= 0 => C33_BottomBorderFits

C33_RoomWitness ==
    Rendered /\ Rem = 14 /\ TheBottom.left_dash = 7 /\ TheBottom.scroll_hint # <<>>

----------------------------------------------------------------------------
(* The lifetime of an executing action, checked under SpecBrowser.         *)

(* C34: while an item's action runs, nothing it calls clears or assigns    *)
(* over the list that stores it.                                           *)
C34_ActionOutlivesCall ==
    calc.fn = "action" =>
        \A i \in 1..Len(calc.calls) : ~overwrites_actions(calc.calls[i])

----------------------------------------------------------------------------
(* The lines of a Table, checked under SpecCells.                          *)

LineWidth(line) ==
    Sum([c \in 1..Len(line) |-> utf8_display_width(line[c])]) + 3 * (Len(line) - 1)

TableStrings(t) ==
    {t.columns[c].name : c \in 1..Len(t.columns)}
    \cup UNION {{t.rows[r][c] : c \in 1..Len(t.rows[r])} : r \in 1..Len(t.rows)}

(* The lines are header, separator and one per row, every line as wide as  *)
(* the column widths and separators, every cell as wide as its column.     *)
LinesFit ==
    IF calc.table.columns = <<>> THEN calc.lines = <<>>
    ELSE /\ Len(calc.lines) = 2 + Len(calc.table.rows)
         /\ \A l \in 1..Len(calc.lines) :
              /\ Len(calc.lines[l]) = Len(calc.table.columns)
              /\ LineWidth(calc.lines[l])
                   = Sum(calc.widths) + 3 * (Len(calc.table.columns) - 1)
              /\ \A c \in 1..Len(calc.widths) :
                    utf8_display_width(calc.lines[l][c]) = calc.widths[c]

(* C35: render returns no lines for a table without columns, else 2 +      *)
(* rows lines, all of the width sum(widths) + 3 * (columns - 1), each cell *)
(* exactly as wide as its column.                                          *)
C35_LinesFit == calc.fn = "Table::render" => LinesFit

(* The same for tables whose names and cells are valid UTF-8.              *)
C35_ValidLinesFit ==
    (calc.fn = "Table::render" /\ \A s \in TableStrings(calc.table) : IsValidUtf8(s))
        => LinesFit

C35_ValidWitness ==
    /\ calc.fn = "Table::render"
    /\ Len(calc.lines) = 3
    /\ calc.widths = <<2, 1>>
    /\ calc.lines[1] = <<<<97>> \o Ellipsis, Ellipsis>>

----------------------------------------------------------------------------
(* on_select after an action that changed the list, checked under          *)
(* SpecList.                                                               *)

ListChangingEffects == {"clear_items", "set_on_select", "add_item", "set_list"}

ActionChangedList(calls) ==
    \E i \in CallsOf(calls, "action") : calls[i].effect \in ListChangingEffects

(* C36: on an ENTER whose action emptied, refilled or replaced the list,   *)
(* the on_select that follows is handed an item of the list as it then is: *)
(* no read of items_ past its end.                                         *)
C36_OnSelectInRange ==
    [][(IsEnterStep /\ ActionChangedList(last'.calls)) =>
          /\ ~crashed'
          /\ \A j \in CallsOf(last'.calls, "on_select") :
                last'.calls[j].item # Garbage]_vars

(* For the actions that change the list other than through set_list the   *)
(* read is in range: clear_items also resets on_select.                    *)
C36_InRangeWithoutSetList ==
    [][(IsEnterStep /\ ActionChangedList(last'.calls) /\ ~crashed
          /\ last'.calls[1].effect # "set_list") =>
          /\ ~crashed'
          /\ \A j \in CallsOf(last'.calls, "on_select") :
                last'.calls[j].item # Garbage]_vars

----------------------------------------------------------------------------
(* The viewport and the list cursor, checked under SpecApp.                *)

(* The line of the active page on which the item under the cursor is       *)
(* drawn: the list's lines follow the static lines.                        *)
CursorRow == ActivePage.lines + ActivePage.list.cursor

AfterUpDown == last.op = "App::handle_key" /\ last.key \in {KEY_UP, KEY_DOWN}

(* C37: after an UP or DOWN key on a page with a list whose lines exceed   *)
(* the viewport, the cursor's line is among the lines drawn: scroll <=     *)
(* row < scroll + content_rows.                                            *)
C37_ViewportFollowsCursor ==
    (/\ AfterUpDown /\ ~crashed
     /\ ActivePage.has_list /\ ActivePage.list.items # <<>>
     /\ ~render_skipped(term)
     /\ total_lines(ActivePage) > content_rows(term)) =>
        /\ ActivePage.scroll <= CursorRow
        /\ CursorRow < ActivePage.scroll + content_rows(term)

----------------------------------------------------------------------------
(* Tab navigation and the pages, checked under SpecApp.                    *)

TabKeyStep == last'.op = "App::handle_key" /\ last'.key \in {KEY_LEFT, KEY_RIGHT}

(* C38: a LEFT or RIGHT key leaves every page as it was (lines, scroll     *)
(* offset, list items, cursor and selection flags), and the terminal size  *)
(* and the running flag too: only active_tab and tab_offset may change.    *)
C38_TabKeysKeepPages ==
    [][TabKeyStep => (pages' = pages /\ term' = term /\ running' = running)]_vars

(* A tab was left by RIGHT while it was scrolled and its cursor was moved; *)
(* it is still scrolled and its cursor is still where it was.              *)
C38_Witness ==
    /\ last.op = "App::handle_key" /\ last.key = KEY_RIGHT /\ last.rendered
    /\ active_tab > 0
    /\ pages[active_tab].scroll > 0
    /\ pages[active_tab].has_list
    /\ pages[active_tab].list.cursor > 0

----------------------------------------------------------------------------
(* The parent entry of the FileBrowser, checked under SpecBrowser.         *)

(* ENTER on the leading "../" of the browser's list, somewhere other than  *)
(* the root.                                                               *)
ParentStep ==
    /\ fb.page # 0 /\ active_tab + 1 = fb.page
    /\ last'.op = "navigate"
    /\ fb.captures[BrowserPage.list.cursor + 1].kind = "parent"
    /\ fb.current_path # <<"/">>

(* C39: activating "../" anywhere but at "/" changes current_path to a     *)
(* different, strictly shorter path.                                       *)
C39_ParentIsShorter ==
    [][ParentStep => (/\ fb'.current_path # fb.current_path
                      /\ Len(fb'.current_path) < Len(fb.current_path))]_vars

(* The same for the absolute paths only: those that begin with '/'.        *)
C39_AbsoluteParentIsShorter ==
    [][(ParentStep /\ fb.current_path[1] = "/") =>
          (/\ fb'.current_path # fb.current_path
           /\ Len(fb'.current_path) < Len(fb.current_path))]_vars

====
